---- MODULE Spec2Model ----
(***************************************************************************)
(* State-machine model of the OpenAgentManager broker (src-tauri):         *)
(*   - AcpClient: one transport per spawned agent (request table, session  *)
(*     id map, permission table, stdout reader task)                       *)
(*   - AgentManager: installed agents and the connections map              *)
(*   - SessionManager: session records, prompt / cancel / remove           *)
(*   - ThreadStore: messages.jsonl of each persisted session               *)
(* The agent subprocess and the frontend are the environment.              *)
(***************************************************************************)
EXTENDS Integers, Sequences, FiniteSets, TLC

\* ---------------------------------------------------------------- bounds
MaxConns == 2
MaxSessions == 2
MaxReq == 4
MaxPipe == 2
MaxUpdates == 2
MaxPerm == 1
MaxPrompts == 2
MaxBogus == 1
MaxCancels == 1
MaxLaunch == 2

\* ------------------------------------------------------------ value sets
Agents == {"a1", "a2"}
ConnIds == 1..MaxConns
SessId(n) == "s" \o ToString(n)
SessIds == {SessId(n) : n \in 1..MaxSessions}
RemoteIds == {"r1", "r2"}
RemoteId(n) == "r" \o ToString(n)
ReqIds == 1..MaxReq
PermIds == 1..MaxPerm

\* Absent value of an Option<String> / a missing map key.
NoId == ""
NoConn == 0
NoSession == [connection_id |-> NoConn, status |-> "absent", messages |-> <<>>]
NoFile == [exists |-> FALSE, lines |-> <<>>]
File(lines) == [exists |-> TRUE, lines |-> lines]
NoRes == [k |-> "none", v |-> "", modes |-> FALSE]
NoWaiter == [state |-> "none", conn |-> NoConn, sess |-> NoId, option |-> ""]

VARIABLES
    installed,            \* AgentManager.installed (key set)
    connections,          \* AgentManager.connections (key set)
    agent_id,             \* AcpClient.agent_id, per connection
    next_id,              \* AcpClient.next_id
    pending,              \* AcpClient.pending (key set: ids whose sender is in the table)
    pending_meta,         \* AcpClient.pending_meta (set of <<id, method>>)
    permission_resolvers, \* AcpClient.permission_resolvers (key set)
    session_map,          \* AcpClient.session_map: [r2i, i2r]
    child,                \* AcpClient._child is Some
    proc,                 \* the subprocess: "none" | "running" | "mute" (running, stdout closed) | "dead"
    stdout,               \* lines the agent wrote and the reader has not read yet
    readerDone,           \* the stdout reader task has left its loop
    wire,                 \* lines the agent received on its stdin
    answered,             \* request ids the agent has already answered
    promised,             \* per remote id: the session whose session/new the agent answered with it
    cancel_tasks,         \* tasks spawned by AcpClient::cancel that have not written yet
    completed,            \* value handed to the one-shot sender of each request
    waiters,              \* permission waiter task of each permission request
    sessions,             \* SessionManager.sessions
    pending_permissions,  \* SessionManager.pending_permissions
    disk,                 \* ThreadStore: messages.jsonl per session
    events,               \* events emitted to the frontend, in order
    cmd,                  \* the frontend command that holds the agents/sessions mutexes
    blocked,              \* commands invoked and waiting in lock() for those mutexes
    count,                \* allocation counters (fresh ids, environment steps taken)
    env_in,               \* AgentManager::launch: what the environment of the last launch was built from
    final_env,            \* AgentManager::launch: final_env handed to the subprocess
    thread_dirs,          \* ThreadStore: <working-dir>/.agent/threads/<session-id>/ on disk
    thread_cache,         \* ThreadStore: thread-cache.json (session id -> manifest)
    now,                  \* ThreadStore: the clock read by Utc::now()
    store_op,             \* ThreadStore: the operation that ran last
    loaded,               \* ThreadStore: what that operation returned, if it was load_all
    last_write,           \* per session id: working dir and message list of its last write
    interrupted,          \* the write that stopped part-way, if the last operation was one
    stdin_owner,          \* AcpClient.stdin: the writer holding the tokio mutex (0: free)
    stdin_stream,         \* the bytes the subprocess has received on its stdin, in order
    writer_kind,          \* per writer: a send_request call or a task spawned by cancel
    writer_pc,            \* per writer: where it is in its write
    writer_sent,          \* per writer: how many bytes of its line write_all has written
    pipe_open,            \* the read end of the stdin pipe is open
    lock_cmd,             \* per handler task: the command it runs ("none": idle)
    lock_pos,             \* per handler task: how many steps of the command's locking it has taken
    lock_calls,           \* per handler task: how many commands it has been given
    store_limit,          \* which threads, directories and operations this run of the store takes
    limit                 \* how many steps of each kind the environment takes in this run

vars == <<installed, connections, agent_id, next_id, pending, pending_meta,
          permission_resolvers, session_map, child, proc, stdout, readerDone,
          wire, answered, promised, cancel_tasks, completed, waiters, sessions,
          pending_permissions, disk, events, cmd, blocked, count, limit,
          env_in, final_env, thread_dirs, thread_cache, now, loaded, store_op,
          last_write, interrupted, store_limit,
          stdin_owner, stdin_stream, writer_kind, writer_pc, writer_sent, pipe_open,
          lock_cmd, lock_pos, lock_calls>>

lockVars == <<lock_cmd, lock_pos, lock_calls>>
envVars == <<env_in, final_env>>
stdinVars == <<stdin_owner, stdin_stream, writer_kind, writer_pc, writer_sent, pipe_open>>
storeVars == <<thread_dirs, thread_cache, now, loaded, store_op, last_write,
               interrupted, store_limit>>
auxVars == <<envVars, storeVars, stdinVars, lockVars>>
mainVars == <<installed, connections, agent_id, next_id, pending, pending_meta,
              permission_resolvers, session_map, child, proc, stdout, readerDone,
              wire, answered, promised, cancel_tasks, completed, waiters, sessions,
              pending_permissions, disk, events, cmd, blocked, count, limit>>

transportVars == <<next_id, pending, pending_meta, permission_resolvers,
                   session_map, completed, waiters>>
processVars == <<child, proc, stdout, readerDone, wire, answered, promised, cancel_tasks>>
managerVars == <<installed, connections, agent_id>>
sessionVars == <<sessions, pending_permissions, disk>>

\* What a command that had to wait for the mutexes waited behind.
NoBehind == [op |-> "", sess |-> NoId]

Idle == [op |-> "idle", stage |-> "", conn |-> NoConn, sess |-> NoId, id |-> 0,
         wrote |-> FALSE, opts |-> {}, res |-> "", behind |-> NoBehind]

\* The runs explored: each scenario bounds what the frontend and the agents do
\* (how many launches, sessions, prompts, notifications, and which optional
\* request and response fields occur).
\*   Transport:  one agent, authentication, stray responses, one session
\*   Streaming:  one agent, one session, session/update notifications
\*   Permission: one agent, one session, permission requests, cancel
\*   Sessions:   one agent, several sessions, removal
\*   Prompts:    one agent, one session, several prompts and cancels
\*   TwoAgents:  several agents (or one agent launched again), one session
\*   Blocking:   one agent, one session, a command invoked while another one
\*               is suspended
Transport ==
    [launch |-> 1, conn |-> 1, sess |-> 1, perm |-> 0, upd |-> 0,
     bogus |-> MaxBogus, msg |-> 1, cancel |-> 0, auth |-> 1, resp |-> 0,
     rids |-> 1, modes |-> FALSE, opts |-> TRUE, queue |-> 0]
Streaming ==
    [launch |-> 1, conn |-> 1, sess |-> 1, perm |-> 0, upd |-> MaxUpdates,
     bogus |-> 0, msg |-> 1, cancel |-> 0, auth |-> 0, resp |-> 0,
     rids |-> 2, modes |-> TRUE, opts |-> FALSE, queue |-> 0]
Permission ==
    [launch |-> 1, conn |-> 1, sess |-> 1, perm |-> MaxPerm, upd |-> 0,
     bogus |-> 0, msg |-> 0, cancel |-> 1, auth |-> 0, resp |-> 1,
     rids |-> 1, modes |-> FALSE, opts |-> FALSE, queue |-> 0]
Sessions ==
    [launch |-> 1, conn |-> 1, sess |-> MaxSessions, perm |-> 0, upd |-> 0,
     bogus |-> 0, msg |-> 1, cancel |-> 0, auth |-> 0, resp |-> 0,
     rids |-> 1, modes |-> FALSE, opts |-> FALSE, queue |-> 0]
Prompts ==
    [launch |-> 1, conn |-> 1, sess |-> 1, perm |-> 0, upd |-> 0,
     bogus |-> 0, msg |-> MaxPrompts, cancel |-> MaxCancels, auth |-> 0, resp |-> 0,
     rids |-> 1, modes |-> FALSE, opts |-> FALSE, queue |-> 0]
TwoAgents ==
    [launch |-> MaxLaunch, conn |-> MaxConns, sess |-> 1, perm |-> 0, upd |-> 0,
     bogus |-> 0, msg |-> 1, cancel |-> 0, auth |-> 0, resp |-> 0,
     rids |-> 1, modes |-> FALSE, opts |-> FALSE, queue |-> 0]
Blocking ==
    [launch |-> 1, conn |-> 1, sess |-> 1, perm |-> 1, upd |-> 0,
     bogus |-> 0, msg |-> 1, cancel |-> 0, auth |-> 0, resp |-> 0,
     rids |-> 1, modes |-> FALSE, opts |-> FALSE, queue |-> 1]
Scenarios == {Transport, Streaming, Permission, Sessions, Prompts, TwoAgents, Blocking}

EmptyMap == [r2i |-> [r \in RemoteIds |-> NoId], i2r |-> [s \in SessIds |-> NoId]]

\* No launch has built an environment yet.
NoLaunch == [agent |-> NoId, registry |-> {}, settings |-> "none", api_keys |-> {},
             api_key |-> FALSE, custom |-> {}, extra |-> {}]
EmptyEnv == [k \in {} |-> ""]

\* Every budget zero: the frontend invokes no command and no agent runs.
Quiet == [launch |-> 0, conn |-> 0, sess |-> 0, perm |-> 0, upd |-> 0, bogus |-> 0,
          msg |-> 0, cancel |-> 0, auth |-> 0, resp |-> 0, rids |-> 1,
          modes |-> FALSE, opts |-> FALSE, queue |-> 0]

\* The thread store: session ids and working directories of persisted threads.
\* Directories p/a and p/b have the same parent; q/c lies elsewhere.
StoreIds == {"t1", "t2"}
WorkDirs == {"p/a", "p/b", "q/c"}
NoManifest == [sessionId |-> NoId, title |-> "", workingDir |-> NoId, updatedAt |-> 0,
               workspaceId |-> NoId]
NoDir == [exists |-> FALSE, manifest |-> NoManifest, messages |-> <<>>]
NoEntry == NoManifest
NoWrite == [workingDir |-> NoId, messages |-> <<>>]
NoCrash == [dir |-> <<NoId, NoId>>, before |-> <<>>, after |-> <<>>]
\* The store is not used.
NoStore == [ids |-> {}, dirs |-> {}, lists |-> {}, titles |-> {}, writes |-> 0,
            index |-> FALSE, crash |-> FALSE]

\* The agents installed at startup: the second agent only in the runs with
\* more than one connection.
InstalledAtBoot == IF limit.conn > 1 THEN Agents ELSE {"a1"}

\* Writers of one transport's stdin and the bytes of the line each one writes:
\* byte LineLen of a line is its line feed.
MaxWriters == 3
LineLen == 3
Writers == 1..MaxWriters
\* No writer takes part.
NoWriters == [w \in Writers |-> "none"]

\* Handler tasks that run frontend commands at the same time, and how many
\* commands each is given.
MaxTasks == 2
MaxCalls == 1
Tasks == 1..MaxTasks
\* No handler task is given a command.
NoCalls == [t \in Tasks |-> MaxCalls]

Boot ==
    /\ installed = InstalledAtBoot
    /\ connections = {}
    /\ agent_id = [c \in ConnIds |-> NoId]
    /\ next_id = [c \in ConnIds |-> 1]
    /\ pending = [c \in ConnIds |-> {}]
    /\ pending_meta = [c \in ConnIds |-> {}]
    /\ permission_resolvers = [c \in ConnIds |-> {}]
    /\ session_map = [c \in ConnIds |-> EmptyMap]
    /\ child = [c \in ConnIds |-> FALSE]
    /\ proc = [c \in ConnIds |-> "none"]
    /\ stdout = [c \in ConnIds |-> <<>>]
    /\ readerDone = [c \in ConnIds |-> FALSE]
    /\ wire = [c \in ConnIds |-> <<>>]
    /\ answered = [c \in ConnIds |-> {}]
    /\ promised = [c \in ConnIds |-> [r \in RemoteIds |-> NoId]]
    /\ cancel_tasks = [c \in ConnIds |-> <<>>]
    /\ completed = [c \in ConnIds |-> [i \in ReqIds |-> NoRes]]
    /\ waiters = [p \in PermIds |-> NoWaiter]
    /\ sessions = [s \in SessIds |-> NoSession]
    /\ pending_permissions = {}
    /\ disk = [s \in SessIds |-> NoFile]
    /\ events = <<>>
    /\ cmd = Idle
    /\ blocked = {}
    /\ count = [launch |-> 0, conn |-> 0, sess |-> 0, perm |-> 0, upd |-> 0,
                bogus |-> 0, msg |-> 0, cancel |-> 0, auth |-> 0,
                permw |-> 0, resp |-> 0, queue |-> 0]
    /\ env_in = NoLaunch
    /\ final_env = EmptyEnv
    /\ thread_dirs = [d \in StoreIds \X WorkDirs |-> NoDir]
    /\ thread_cache = [t \in StoreIds |-> NoEntry]
    /\ now = 1
    /\ loaded = <<>>
    /\ store_op = ""
    /\ last_write = [t \in StoreIds |-> NoWrite]
    /\ interrupted = NoCrash
    /\ stdin_owner = 0
    /\ stdin_stream = <<>>
    /\ writer_pc = [w \in Writers |-> "start"]
    /\ writer_sent = [w \in Writers |-> 0]
    /\ pipe_open = TRUE
    /\ lock_cmd = [t \in Tasks |-> "none"]
    /\ lock_pos = [t \in Tasks |-> 0]

Init == lock_calls = NoCalls /\ limit \in Scenarios /\ store_limit = NoStore /\ writer_kind = NoWriters /\ Boot

\* ------------------------------------------------------- transport: send
\* The agent's end of the stdin pipe is open while the subprocess runs.
StdinOpen(c) == proc[c] \in {"running", "mute"}

\* AcpClient::internal_to_remote: unknown ids pass through.
internal_to_remote(c, s) ==
    IF s \in SessIds /\ session_map[c].i2r[s] # NoId THEN session_map[c].i2r[s] ELSE s

\* Remote-to-internal lookup of handle_session_update / handle_permission_request.
remote_to_internal(c, r) ==
    IF r \in RemoteIds /\ session_map[c].r2i[r] # NoId THEN session_map[c].r2i[r] ELSE r

\* send_request_with_meta up to its await: take an id, install the sender and
\* the meta entry, then write the line; a failed write returns early and
\* leaves both entries behind.
send_request_with_meta(c, method, sid, meta) ==
    LET id == next_id[c] IN
    /\ next_id' = [next_id EXCEPT ![c] = id + 1]
    /\ pending' = [pending EXCEPT ![c] = @ \cup {id}]
    /\ pending_meta' = [pending_meta EXCEPT ![c] = @ \cup {<<id, method>>}]
    /\ wire' = IF StdinOpen(c)
               THEN [wire EXCEPT ![c] = Append(@, [id |-> id, method |-> method,
                                                    sessionId |-> sid, meta |-> meta])]
               ELSE wire

\* The command state after a send: awaiting the one-shot receiver, or holding
\* the write error.
Awaiting(op, method, c, s, opts) ==
    [op |-> op, stage |-> method, conn |-> c, sess |-> s, id |-> next_id[c],
     wrote |-> StdinOpen(c), opts |-> opts, res |-> "", behind |-> NoBehind]

WriteError == [k |-> "write_error", v |-> "", modes |-> FALSE]

\* The awaited request has an outcome the caller can resume with.
Ready == /\ cmd.op # "idle"
         /\ cmd.stage # "returned"
         /\ \/ ~cmd.wrote
            \/ completed[cmd.conn][cmd.id] # NoRes
Res == IF ~cmd.wrote THEN WriteError ELSE completed[cmd.conn][cmd.id]
IsOk(r) == r.k = "ok"
Exited == [k |-> "exited", v |-> "", modes |-> FALSE]
Terminated == [k |-> "terminated", v |-> "", modes |-> FALSE]

CanSend(c, n) == next_id[c] + n - 1 <= MaxReq

Emit(e) == events' = Append(events, e)
\* The command's function has produced its result; it still holds its locks.
Return(op, res, c, s) ==
    cmd' = [op |-> op, stage |-> "returned", conn |-> c, sess |-> s, id |-> 0,
            wrote |-> FALSE, opts |-> {}, res |-> res, behind |-> NoBehind]
Returned(op) == cmd.op = op /\ cmd.stage = "returned"

\* The top-level mutexes whose guards a command handler keeps from its first
\* statements until it returns.
Locks(op) ==
    CASE op \in {"create_session", "prompt"} -> {"settings", "thread_store", "agents", "sessions"}
      [] op = "launch" -> {"settings", "registry", "agents"}
      [] op \in {"cancel", "resolve_permission"} -> {"agents", "sessions"}
      [] op = "remove_session" -> {"thread_store", "agents", "sessions"}
      [] op = "uninstall" -> {"settings", "agents"}
      [] op = "terminate" -> {"agents"}
      [] OTHER -> {}
Held == Locks(cmd.op)

\* The command in flight is suspended in the await of a JSON-RPC response.
Suspended == cmd.op # "idle" /\ cmd.stage # "returned" /\ cmd.wrote

Call(op, s, p, option) ==
    [op |-> op, sess |-> s, p |-> p, option |-> option,
     behind |-> [op |-> cmd.op, sess |-> cmd.sess]]
Queued(op, s, p, option) == {b \in blocked : b.op = op /\ b.sess = s /\ b.p = p /\ b.option = option}
Behind(q) == IF q = {} THEN NoBehind ELSE (CHOOSE b \in q : TRUE).behind

\* session_cancel invoked for a known session while a suspended command holds
\* the agents mutex: the handler blocks in state.agents.lock().
SessionCancelBlocked(s) ==
    /\ Suspended
    /\ "agents" \in Held
    /\ sessions[s] # NoSession
    /\ count.queue < limit.queue
    /\ Queued("cancel", s, 0, "") = {}
    /\ blocked' = blocked \cup {Call("cancel", s, 0, "")}
    /\ count' = [count EXCEPT !.queue = @ + 1]
    /\ UNCHANGED <<auxVars, limit, managerVars, transportVars, processVars, sessionVars, events, cmd>>

\* session_permission_response invoked for a request the frontend was shown,
\* while a suspended command holds the agents mutex.
SessionPermissionResponseBlocked(p, option) ==
    /\ Suspended
    /\ "agents" \in Held
    /\ waiters[p].state = "waiting"
    /\ count.queue < limit.queue
    /\ Queued("resolve_permission", NoId, p, option) = {}
    /\ blocked' = blocked \cup {Call("resolve_permission", NoId, p, option)}
    /\ count' = [count EXCEPT !.queue = @ + 1]
    /\ UNCHANGED <<auxVars, limit, managerVars, transportVars, processVars, sessionVars, events, cmd>>

\* The command handler returns to the frontend and its mutex guards are dropped.
CommandReturn ==
    /\ cmd.stage = "returned"
    /\ cmd' = Idle
    /\ UNCHANGED <<auxVars, limit, blocked, installed, connections, agent_id, next_id, pending, pending_meta,
                   permission_resolvers, session_map, child, proc, stdout, readerDone,
                   wire, answered, promised, cancel_tasks, completed, waiters, sessions,
                   pending_permissions, disk, events, count>>

\* ---------------------------------------------------- AgentManager::launch
\* A drop of the AcpClient that leaves the subprocess running.
DropClient_Leak(c) ==
    /\ child' = child
    /\ proc' = proc

\* Dropping the AcpClient drops the Child: kill_on_drop kills the subprocess.
DropClient(c) ==
    /\ child' = [child EXCEPT ![c] = FALSE]
    /\ proc' = [proc EXCEPT ![c] = "dead"]

StatusEvent(c, st) == [type |-> "agent:status-change", sessionId |-> NoId,
                       conn |-> c, n |-> 0, status |-> st]

\* launch of an agent that is not installed fails before anything happens.
LaunchNotInstalled(a) ==
    /\ cmd = Idle
    /\ a \in InstalledAtBoot
    /\ a \notin installed
    /\ Return("launch", "not_installed", NoConn, NoId)
    /\ UNCHANGED <<auxVars, limit, blocked, managerVars, transportVars, processVars, sessionVars, events, count>>

\* launch: emit "launching", spawn the subprocess (AcpClient::start), then
\* send initialize through send_request_timeout.
LaunchStart(a, spawned) ==
    /\ cmd = Idle
    /\ a \in installed
    /\ count.launch < limit.launch
    /\ count.conn < limit.conn
    /\ LET c == count.conn + 1 IN
       IF spawned
       THEN /\ Emit(StatusEvent(NoConn, "launching"))
            /\ count' = [count EXCEPT !.conn = c, !.launch = @ + 1]
            /\ agent_id' = [agent_id EXCEPT ![c] = a]
            /\ child' = [child EXCEPT ![c] = TRUE]
            /\ proc' = [proc EXCEPT ![c] = "running"]
            /\ next_id' = [next_id EXCEPT ![c] = 2]
            /\ pending' = [pending EXCEPT ![c] = {1}]
            /\ pending_meta' = [pending_meta EXCEPT ![c] = {<<1, "initialize">>}]
            /\ wire' = [wire EXCEPT ![c] = <<[id |-> 1, method |-> "initialize",
                                              sessionId |-> NoId, meta |-> NoId]>>]
            /\ cmd' = [op |-> "launch", stage |-> "initialize", conn |-> c,
                       sess |-> NoId, id |-> 1, wrote |-> TRUE, opts |-> {}, res |-> "",
                       behind |-> NoBehind]
            /\ UNCHANGED <<auxVars, limit, blocked, installed, connections, permission_resolvers, session_map,
                           completed, waiters, stdout, readerDone, answered, promised,
                           cancel_tasks, sessionVars>>
       ELSE /\ Emit(StatusEvent(NoConn, "launching"))
            /\ Return("launch", "spawn_error", NoConn, NoId)
            /\ count' = [count EXCEPT !.launch = @ + 1]
            /\ UNCHANGED <<auxVars, limit, blocked, managerVars, transportVars, processVars, sessionVars>>

\* The tail of launch: announce and insert the transport into the map.
LaunchFinish(c) ==
    /\ connections' = connections \cup {c}
    /\ Emit(StatusEvent(c, "connected"))
    /\ Return("launch", "ok", c, NoId)

\* initialize answered (or its write failed): on error launch returns and the
\* client is dropped; on success launch authenticates when the agent offers an
\* env_var method the settings hold a key for (auth), else finishes.
LaunchInitDone(auth) ==
    /\ cmd.op = "launch" /\ cmd.stage = "initialize" /\ Ready
    /\ LET c == cmd.conn IN
       IF ~IsOk(Res)
       THEN /\ ~auth
            /\ DropClient(c)
            /\ Return("launch", "error", c, NoId)
            /\ UNCHANGED <<auxVars, limit, blocked, managerVars, transportVars, stdout, readerDone, wire,
                           answered, promised, cancel_tasks, sessionVars, events, count>>
       ELSE IF auth
       THEN /\ CanSend(c, 2)
            /\ count.auth < limit.auth
            /\ send_request_with_meta(c, "connection/authenticate", NoId, NoId)
            /\ cmd' = Awaiting("launch", "connection/authenticate", c, NoId, {})
            /\ count' = [count EXCEPT !.auth = @ + 1]
            /\ UNCHANGED <<auxVars, limit, blocked, managerVars, permission_resolvers, session_map, completed,
                           waiters, child, proc, stdout, readerDone, answered, promised,
                           cancel_tasks, sessionVars, events>>
       ELSE /\ LaunchFinish(c)
            /\ UNCHANGED <<auxVars, limit, blocked, installed, agent_id, transportVars, processVars,
                           sessionVars, count>>

\* A timeout that also takes the request out of the table.
LaunchInitTimeout_Cleans ==
    /\ cmd.op = "launch" /\ cmd.stage = "initialize" /\ ~Ready
    /\ DropClient(cmd.conn)
    /\ pending' = [pending EXCEPT ![cmd.conn] = @ \ {cmd.id}]
    /\ pending_meta' = [pending_meta EXCEPT ![cmd.conn] = {m \in @ : m[1] # cmd.id}]
    /\ Return("launch", "timeout", cmd.conn, NoId)
    /\ UNCHANGED <<auxVars, limit, blocked, managerVars, next_id, permission_resolvers, session_map,
                   completed, waiters, stdout, readerDone, wire, answered, promised,
                   cancel_tasks, sessionVars, events, count>>

\* The 30 s deadline of send_request_timeout fires before the response: the
\* future is dropped, the entry stays in the table, launch fails.
LaunchInitTimeout ==
    /\ cmd.op = "launch" /\ cmd.stage = "initialize" /\ ~Ready
    /\ DropClient(cmd.conn)
    /\ Return("launch", "timeout", cmd.conn, NoId)
    /\ UNCHANGED <<auxVars, limit, blocked, managerVars, transportVars, stdout, readerDone, wire, answered, promised,
                   cancel_tasks, sessionVars, events, count>>

\* AcpClient::authenticate inside launch: method-not-found falls back to the
\* legacy method; any other outcome is logged and launch goes on.
\* The error objects an agent answers with: "nf" is code -32601 with message
\* "Method not found", "other" is code -32000 with message "Internal error",
\* "other_nf" is code -32000 with a message that says "method not found".
MethodNotFound == -32601
ErrCode(e) == IF e = "nf" THEN MethodNotFound ELSE -32000
MentionsNotFound(e) == e \in {"nf", "other_nf"}
\* The test authenticate applies to the text "ACP error <code>: <message>":
\* it contains "-32601" or, in lower case, "method not found".
IsMethodNotFound(r) ==
    r.k = "acp" /\ (ErrCode(r.v) = MethodNotFound \/ MentionsNotFound(r.v))

LaunchAuthDone ==
    /\ cmd.op = "launch" /\ cmd.stage = "connection/authenticate" /\ Ready
    /\ LET c == cmd.conn IN
       IF IsMethodNotFound(Res)
       THEN /\ send_request_with_meta(c, "authenticate", NoId, NoId)
            /\ cmd' = Awaiting("launch", "authenticate", c, NoId, {})
            /\ UNCHANGED <<auxVars, limit, blocked, managerVars, permission_resolvers, session_map, completed,
                           waiters, child, proc, stdout, readerDone, answered, promised,
                           cancel_tasks, sessionVars, events, count>>
       ELSE /\ LaunchFinish(c)
            /\ UNCHANGED <<auxVars, limit, blocked, installed, agent_id, transportVars, processVars,
                           sessionVars, count>>

LaunchLegacyAuthDone ==
    /\ cmd.op = "launch" /\ cmd.stage = "authenticate" /\ Ready
    /\ LaunchFinish(cmd.conn)
    /\ UNCHANGED <<auxVars, limit, blocked, installed, agent_id, transportVars, processVars, sessionVars, count>>

\* ------------------------------------------------------ the agent process
U64(hi, lo) == [t |-> "u64", hi |-> hi, lo |-> lo]
NotU64 == [t |-> "other", hi |-> 0, lo |-> 0]

Response(wid, err, sid, modes) ==
    [t |-> "resp", id |-> wid, err |-> err, sid |-> sid, n |-> 0, modes |-> modes]

\* The remote session ids the agents of this run use.
UsedRemoteIds == {RemoteId(n) : n \in 1..limit.rids}

\* What an agent may answer to a request of the given method.
Answers(method) ==
    CASE method = "session/new" ->
            {<<"", r, m>> : r \in UsedRemoteIds, m \in {FALSE, limit.modes}}
                \cup {<<"", NoId, FALSE>>, <<"other", NoId, FALSE>>}
      [] method = "connection/authenticate" ->
            {<<"", NoId, FALSE>>, <<"nf", NoId, FALSE>>, <<"other", NoId, FALSE>>,
             <<"other_nf", NoId, FALSE>>}
      [] OTHER -> {<<"", NoId, FALSE>>, <<"other", NoId, FALSE>>}

Unanswered(c) == {i \in 1..Len(wire[c]) : wire[c][i].id # 0 /\ wire[c][i].id \notin answered[c]}

\* The agent answers a request it has received.
AgentRespond(c) ==
    /\ proc[c] = "running"
    /\ Len(stdout[c]) < MaxPipe
    /\ \E i \in Unanswered(c) :
         \E a \in Answers(wire[c][i].method) :
            /\ stdout' = [stdout EXCEPT ![c] = Append(@, Response(U64(0, wire[c][i].id), a[1], a[2], a[3]))]
            /\ answered' = [answered EXCEPT ![c] = @ \cup {wire[c][i].id}]
            /\ promised' = IF wire[c][i].method = "session/new" /\ a[1] = "" /\ a[2] # NoId
                           THEN [promised EXCEPT ![c][a[2]] = wire[c][i].meta]
                           ELSE promised
    /\ UNCHANGED <<auxVars, limit, blocked, managerVars, transportVars, child, proc, readerDone, wire,
                   cancel_tasks, sessionVars, events, cmd, count>>

\* The agent writes a response whose id is no request id it was sent: a
\* number of 2^32 or more (hi = 1), or a JSON value that is not an unsigned
\* integer (a string, a negative number, a fraction).
AgentBogusResponse(c) ==
    /\ proc[c] = "running"
    /\ Len(stdout[c]) < MaxPipe
    /\ count.bogus < limit.bogus
    /\ \E wid \in {U64(1, wire[c][i].id) : i \in 1..Len(wire[c])} \cup {NotU64} :
         stdout' = [stdout EXCEPT ![c] = Append(@, Response(wid, "", NoId, FALSE))]
    /\ count' = [count EXCEPT !.bogus = @ + 1]
    /\ UNCHANGED <<auxVars, limit, blocked, managerVars, transportVars, child, proc, readerDone, wire, answered, promised,
                   cancel_tasks, sessionVars, events, cmd>>

\* The agent writes a session/update notification for a remote session id.
AgentUpdate(c) ==
    /\ proc[c] = "running"
    /\ Len(stdout[c]) < MaxPipe
    /\ count.upd < limit.upd
    /\ \E r \in UsedRemoteIds :
         stdout' = [stdout EXCEPT ![c] = Append(@, [t |-> "update", id |-> NotU64, err |-> "",
                                                    sid |-> r, n |-> count.upd + 1,
                                                    modes |-> FALSE, exp |-> promised[c][r]])]
    /\ count' = [count EXCEPT !.upd = @ + 1]
    /\ UNCHANGED <<auxVars, limit, blocked, managerVars, transportVars, child, proc, readerDone, wire, answered, promised,
                   cancel_tasks, sessionVars, events, cmd>>

\* The agent asks for permission (session/request_permission).
AgentPermission(c) ==
    /\ proc[c] = "running"
    /\ Len(stdout[c]) < MaxPipe
    /\ count.permw < limit.perm
    /\ \E r \in UsedRemoteIds :
         stdout' = [stdout EXCEPT ![c] = Append(@, [t |-> "perm", id |-> U64(0, 1), err |-> "",
                                                    sid |-> r, n |-> 0, modes |-> FALSE,
                                                    exp |-> promised[c][r]])]
    /\ count' = [count EXCEPT !.permw = @ + 1]
    /\ UNCHANGED <<auxVars, limit, blocked, managerVars, transportVars, child, proc, readerDone, wire, answered, promised,
                   cancel_tasks, sessionVars, events, cmd>>

\* The subprocess closes its stdout (or writes a line that is not UTF-8, which
\* ends the reader's loop as well) and keeps running: explored in the runs
\* with a misbehaving agent.
AgentCloseStdout(c) ==
    /\ proc[c] = "running"
    /\ limit.bogus > 0
    /\ proc' = [proc EXCEPT ![c] = "mute"]
    /\ UNCHANGED <<auxVars, limit, blocked, managerVars, transportVars, child, stdout, readerDone, wire, answered, promised,
                   cancel_tasks, sessionVars, events, cmd, count>>

\* The subprocess exits on its own.
AgentExit(c) ==
    /\ proc[c] \in {"running", "mute"}
    /\ proc' = [proc EXCEPT ![c] = "dead"]
    /\ UNCHANGED <<auxVars, limit, blocked, managerVars, transportVars, child, stdout, readerDone, wire, answered, promised,
                   cancel_tasks, sessionVars, events, cmd, count>>

\* ------------------------------------------------ the stdout reader task
\* msg["id"].as_u64().unwrap_or(0) as u32
AsU32(wid) == IF wid.t = "u64" THEN wid.lo ELSE 0

\* handle_message, response branch: remove the sender and the meta entry of
\* the id and hand the outcome to the sender if there was one.
HandleResponse(c, msg) ==
    LET id == AsU32(msg.id)
        val == IF msg.err # "" THEN [k |-> "acp", v |-> msg.err, modes |-> FALSE]
                               ELSE [k |-> "ok", v |-> msg.sid, modes |-> msg.modes]
    IN  /\ pending' = [pending EXCEPT ![c] = @ \ {id}]
        /\ pending_meta' = [pending_meta EXCEPT ![c] = {m \in @ : m[1] # id}]
        /\ completed' = IF id \in pending[c]
                        THEN [completed EXCEPT ![c][id] = val]
                        ELSE completed
        /\ UNCHANGED <<permission_resolvers, session_map, waiters, events, count>>

UpdateEvent(c, sid, msg) == [type |-> "session:update", sessionId |-> sid,
                             conn |-> c, n |-> msg.n, status |-> "agent", exp |-> msg.exp]
PermissionEvent(c, sid, p, msg) == [type |-> "session:permission-request", sessionId |-> sid,
                                    conn |-> c, n |-> p, status |-> "", exp |-> msg.exp]
ResolvedEvent(p) == [type |-> "session:permission-resolved", sessionId |-> NoId,
                     conn |-> NoConn, n |-> p, status |-> ""]

\* handle_session_update: translate the session id and emit the update.
handle_session_update(c, msg) ==
    /\ Emit(UpdateEvent(c, remote_to_internal(c, msg.sid), msg))
    /\ UNCHANGED <<pending, pending_meta, completed, permission_resolvers, session_map,
                   waiters, count>>

\* handle_permission_request: fresh request id, install the resolver, emit
\* the request event and spawn the waiter task.
handle_permission_request(c, msg) ==
    LET p == count.perm + 1
        sid == remote_to_internal(c, msg.sid)
    IN  /\ count' = [count EXCEPT !.perm = p]
        /\ permission_resolvers' = [permission_resolvers EXCEPT ![c] = @ \cup {p}]
        /\ Emit(PermissionEvent(c, sid, p, msg))
        /\ waiters' = [waiters EXCEPT ![p] = [state |-> "waiting", conn |-> c,
                                              sess |-> sid, option |-> ""]]
        /\ UNCHANGED <<pending, pending_meta, completed, session_map>>

\* A reader that hands out the newest buffered line instead of the oldest.
NextLine_Newest(q) == q[Len(q)]

\* lines.next_line(): the oldest line not read yet.
NextLine(q) == Head(q)

\* One iteration of the reader loop: take the next line and dispatch it.
ReaderStep(c) ==
    /\ ~readerDone[c]
    /\ stdout[c] # <<>>
    /\ LET msg == NextLine(stdout[c]) IN
       /\ stdout' = [stdout EXCEPT ![c] = Tail(@)]
       /\ CASE msg.t = "resp" -> HandleResponse(c, msg)
            [] msg.t = "update" -> handle_session_update(c, msg)
            [] msg.t = "perm" -> handle_permission_request(c, msg)
    /\ UNCHANGED <<auxVars, limit, blocked, managerVars, next_id, child, proc, readerDone, wire, answered, promised,
                   cancel_tasks, sessionVars, cmd>>

\* A reader that leaves its loop without rejecting the pending senders.
ReaderExit_NoDrain(c) ==
    /\ ~readerDone[c]
    /\ proc[c] \in {"dead", "mute"}
    /\ stdout[c] = <<>>
    /\ readerDone' = [readerDone EXCEPT ![c] = TRUE]
    /\ UNCHANGED <<auxVars, limit, blocked, managerVars, transportVars, child, proc, stdout, wire, answered,
                   promised, cancel_tasks, sessionVars, events, cmd, count>>

\* stdout reached end of file: the reader leaves its loop and rejects every
\* sender still in the table.
ReaderExit(c) ==
    /\ ~readerDone[c]
    /\ proc[c] \in {"dead", "mute"}
    /\ stdout[c] = <<>>
    /\ readerDone' = [readerDone EXCEPT ![c] = TRUE]
    /\ pending' = [pending EXCEPT ![c] = {}]
    /\ completed' = [completed EXCEPT ![c] =
                        [i \in ReqIds |-> IF i \in pending[c]
                                          THEN Exited ELSE @[i]]]
    /\ UNCHANGED <<auxVars, limit, blocked, managerVars, next_id, pending_meta, permission_resolvers, session_map,
                   waiters, child, proc, stdout, wire, answered, promised, cancel_tasks,
                   sessionVars, events, cmd, count>>

\* ------------------------------------------- permission waiter tasks
\* The waiter received the decision sent through its one-shot channel.
WaiterResolved(p) ==
    /\ waiters[p].state = "sent"
    /\ waiters' = [waiters EXCEPT ![p].state = "done"]
    /\ Emit(ResolvedEvent(p))
    /\ UNCHANGED <<auxVars, limit, blocked, managerVars, next_id, pending, pending_meta, permission_resolvers,
                   session_map, completed, processVars, sessionVars, cmd, count>>

\* A waiter whose timeout branch leaves the resolver in the table.
WaiterTimeout_KeepsEntry(p) ==
    /\ waiters[p].state = "waiting"
    /\ waiters' = [waiters EXCEPT ![p].state = "done", ![p].option = "__cancelled__"]
    /\ Emit(ResolvedEvent(p))
    /\ UNCHANGED <<auxVars, limit, blocked, managerVars, next_id, pending, pending_meta, session_map,
                   permission_resolvers, completed, processVars, sessionVars, cmd, count>>

\* The 300 s wait elapsed: the waiter removes the resolver itself.
WaiterTimeout(p) ==
    /\ waiters[p].state = "waiting"
    /\ waiters' = [waiters EXCEPT ![p].state = "done", ![p].option = "__cancelled__"]
    /\ permission_resolvers' = [permission_resolvers EXCEPT ![waiters[p].conn] = @ \ {p}]
    /\ Emit(ResolvedEvent(p))
    /\ UNCHANGED <<auxVars, limit, blocked, managerVars, next_id, pending, pending_meta, session_map,
                   completed, processVars, sessionVars, cmd, count>>

\* A resolve_permission that removes the resolver without sending through it.
ResolvedWaiters_NotSent(cs, ps, option) == waiters

\* AcpClient::resolve_permission on each transport of cs: the waiters and the
\* permission tables afterwards.
ResolvedWaiters(cs, ps, option) ==
    [p \in PermIds |->
        IF p \in ps /\ \E c \in cs : p \in permission_resolvers[c]
        THEN [waiters[p] EXCEPT !.state = "sent", !.option = option]
        ELSE waiters[p]]
ResolvedTable(cs, ps) ==
    [c \in ConnIds |-> IF c \in cs THEN permission_resolvers[c] \ ps
                                   ELSE permission_resolvers[c]]

\* ----------------------------------------------- AcpClient::terminate
\* A terminate that kills the child but leaves the request table alone.
TerminateClient_NoDrain(cs) ==
    /\ child' = [c \in ConnIds |-> IF c \in cs THEN FALSE ELSE child[c]]
    /\ proc' = [c \in ConnIds |-> IF c \in cs /\ child[c] THEN "dead" ELSE proc[c]]
    /\ UNCHANGED <<pending, completed>>

\* Take and drop the child, then reject every sender in the table.
TerminateClient(cs) ==
    /\ child' = [c \in ConnIds |-> IF c \in cs THEN FALSE ELSE child[c]]
    /\ proc' = [c \in ConnIds |-> IF c \in cs /\ child[c] THEN "dead" ELSE proc[c]]
    /\ pending' = [c \in ConnIds |-> IF c \in cs THEN {} ELSE pending[c]]
    /\ completed' = [c \in ConnIds |->
                        [i \in ReqIds |-> IF c \in cs /\ i \in pending[c]
                                          THEN Terminated ELSE completed[c][i]]]

\* AgentManager::terminate (agent_terminate).
AgentTerminate(c) ==
    /\ cmd = Idle
    /\ c \in connections
    /\ connections' = connections \ {c}
    /\ TerminateClient({c})
    /\ Return("terminate", "ok", c, NoId)
    /\ UNCHANGED <<auxVars, limit, blocked, installed, agent_id, next_id, pending_meta, permission_resolvers,
                   session_map, waiters, stdout, readerDone, wire, answered, promised, cancel_tasks,
                   sessionVars, events, count>>

\* AgentManager::uninstall (agent_uninstall).
\* A selection that takes every connection, whatever its agent.
to_terminate_All(a) == connections
\* The connections whose client belongs to the agent.
to_terminate(a) == {c \in connections : agent_id[c] = a}

Uninstall(a) ==
    /\ cmd = Idle
    /\ a \in installed
    /\ connections' = connections \ to_terminate(a)
    /\ TerminateClient(to_terminate(a))
    /\ installed' = installed \ {a}
    /\ Return("uninstall", "ok", NoConn, NoId)
    /\ UNCHANGED <<auxVars, limit, blocked, agent_id, next_id, pending_meta, permission_resolvers,
                   session_map, waiters, stdout, readerDone, wire, answered, promised, cancel_tasks,
                   sessionVars, events, count>>

\* --------------------------------------- SessionManager::create_session
\* A create_session that persists a thread before looking up the connection.
CreateSessionNoConn_Persists(c) ==
    /\ cmd = Idle
    /\ c \notin connections
    /\ Return("create_session", "connection_not_found", c, NoId)
    /\ disk' = [disk EXCEPT ![SessId(1)] = File(<<>>)]
    /\ UNCHANGED <<auxVars, limit, blocked, managerVars, transportVars, processVars, sessions,
                   pending_permissions, events, count>>

\* create_session for a connection id that is not in the connections map.
CreateSessionNoConn(c) ==
    /\ cmd = Idle
    /\ c \notin connections
    /\ Return("create_session", "connection_not_found", c, NoId)
    /\ UNCHANGED <<auxVars, limit, blocked, managerVars, transportVars, processVars, sessionVars, events, count>>

\* create_session up to the await of session/new; opts says whether the
\* request carries an interaction mode and a model id.
CreateSessionStart(c, opts) ==
    /\ cmd = Idle
    /\ c \in connections
    /\ count.sess < limit.sess
    /\ CanSend(c, 1 + Cardinality(opts))
    /\ opts # {} => limit.opts
    /\ LET s == SessId(count.sess + 1) IN
       /\ count' = [count EXCEPT !.sess = @ + 1]
       /\ send_request_with_meta(c, "session/new", NoId, s)
       /\ cmd' = Awaiting("create_session", "session/new", c, s, opts)
    /\ UNCHANGED <<auxVars, limit, blocked, managerVars, permission_resolvers, session_map, completed, waiters,
                   child, proc, stdout, readerDone, answered, promised, cancel_tasks, sessionVars,
                   events>>

\* emit_session_new_updates: the events derived from the session/new result.
SessionNewEvents(c, s, r) ==
    IF r.modes
    THEN <<[type |-> "session:update", sessionId |-> s, conn |-> c, n |-> 0,
            status |-> "config_options_update"],
           [type |-> "session:update", sessionId |-> s, conn |-> c, n |-> 0,
            status |-> "current_mode_update"]>>
    ELSE <<>>

\* Whether thread_store.save succeeds: it may fail in the runs that also carry
\* the advisory requests.
SaveOutcomes == IF limit.opts THEN BOOLEAN ELSE {TRUE}

\* The record create_session builds, saves (the result of save is dropped)
\* and inserts.
CreateFinish(c, s) ==
    /\ sessions' = [sessions EXCEPT ![s] = [connection_id |-> c, status |-> "active",
                                            messages |-> <<>>]]
    /\ \E saved \in SaveOutcomes :
          disk' = IF saved THEN [disk EXCEPT ![s] = File(<<>>)] ELSE disk
    /\ Return("create_session", "ok", c, s)

\* AcpClient::new_session after its await, then the advisory set_mode.
CreateSessionNewDone ==
    /\ cmd.op = "create_session" /\ cmd.stage = "session/new" /\ Ready
    /\ LET c == cmd.conn
           s == cmd.sess
           r == Res
       IN
       IF ~IsOk(r) \/ r.v = NoId
       THEN /\ Return("create_session", "error", c, s)
            /\ UNCHANGED <<auxVars, limit, blocked, managerVars, transportVars, processVars, sessionVars,
                           events, count>>
       ELSE /\ session_map' = [session_map EXCEPT ![c].r2i[r.v] = s, ![c].i2r[s] = r.v]
            /\ events' = events \o SessionNewEvents(c, s, r)
            /\ IF cmd.opts # {}
               THEN LET m == IF "mode" \in cmd.opts THEN "session/set_mode"
                                                    ELSE "session/set_model" IN
                    /\ send_request_with_meta(c, m, r.v, s)
                    /\ cmd' = Awaiting("create_session", m, c, s, cmd.opts)
                    /\ UNCHANGED <<auxVars, limit, blocked, managerVars, permission_resolvers, completed,
                                   waiters, child, proc, stdout, readerDone, answered, promised,
                                   cancel_tasks, sessionVars, count>>
               ELSE /\ CreateFinish(c, s)
                    /\ UNCHANGED <<auxVars, limit, blocked, managerVars, next_id, pending, pending_meta,
                                   permission_resolvers, completed, waiters, processVars,
                                   pending_permissions, count>>

\* A create_session that gives up when set_mode fails.
CreateSessionModeDone_Aborts ==
    /\ cmd.op = "create_session" /\ cmd.stage = "session/set_mode" /\ Ready
    /\ IF IsOk(Res)
       THEN CreateFinish(cmd.conn, cmd.sess)
       ELSE Return("create_session", "error", cmd.conn, cmd.sess) /\ UNCHANGED sessionVars
    /\ UNCHANGED <<auxVars, limit, blocked, managerVars, transportVars, processVars,
                   pending_permissions, events, count>>

\* set_mode answered (its error is only logged), then the advisory set_model.
CreateSessionModeDone ==
    /\ cmd.op = "create_session" /\ cmd.stage = "session/set_mode" /\ Ready
    /\ LET c == cmd.conn
           s == cmd.sess
       IN
       IF "model" \in cmd.opts
       THEN /\ send_request_with_meta(c, "session/set_model", internal_to_remote(c, s), s)
            /\ cmd' = Awaiting("create_session", "session/set_model", c, s, cmd.opts)
            /\ UNCHANGED <<auxVars, limit, blocked, managerVars, permission_resolvers, session_map, completed,
                           waiters, child, proc, stdout, readerDone, answered, promised, cancel_tasks,
                           sessionVars, events, count>>
       ELSE /\ CreateFinish(c, s)
            /\ UNCHANGED <<auxVars, limit, blocked, managerVars, transportVars, processVars,
                           pending_permissions, events, count>>

CreateSessionModelDone ==
    /\ cmd.op = "create_session" /\ cmd.stage = "session/set_model" /\ Ready
    /\ CreateFinish(cmd.conn, cmd.sess)
    /\ UNCHANGED <<auxVars, limit, blocked, managerVars, transportVars, processVars, pending_permissions,
                   events, count>>

\* ----------------------------------------------- SessionManager::prompt
PromptNoSession(s) ==
    /\ cmd = Idle
    /\ sessions[s] = NoSession
    /\ Return("prompt", "session_not_found", NoConn, s)
    /\ UNCHANGED <<auxVars, limit, blocked, managerVars, transportVars, processVars, sessionVars, events, count>>

\* ThreadStore::update_messages: rewrite messages.jsonl unless the thread
\* directory does not exist.
update_messages(s, messages) ==
    IF ~disk[s].exists THEN disk ELSE [disk EXCEPT ![s] = File(messages)]

\* prompt up to the await: status, user message, then the transport lookup,
\* which returns early when the connection is gone.
PromptStart(s) ==
    /\ cmd = Idle
    /\ sessions[s] # NoSession
    /\ count.msg < limit.msg
    /\ LET c == sessions[s].connection_id IN
       /\ sessions' = [sessions EXCEPT ![s].status = "prompting",
                                        ![s].messages = Append(@, count.msg + 1)]
       /\ count' = [count EXCEPT !.msg = @ + 1]
       /\ IF c \notin connections
          THEN /\ Return("prompt", "connection_lost", c, s)
               /\ UNCHANGED <<auxVars, limit, blocked, managerVars, transportVars, processVars,
                              pending_permissions, disk, events>>
          ELSE /\ CanSend(c, 1)
               /\ send_request_with_meta(c, "session/prompt", internal_to_remote(c, s), s)
               /\ cmd' = Awaiting("prompt", "session/prompt", c, s, {})
               /\ UNCHANGED <<auxVars, limit, blocked, managerVars, permission_resolvers, session_map,
                              completed, waiters, child, proc, stdout, readerDone, answered, promised,
                              cancel_tasks, pending_permissions, disk, events>>

\* prompt after the await: record the status and persist the messages.
PromptDone ==
    /\ cmd.op = "prompt" /\ Ready
    /\ LET s == cmd.sess
           st == IF IsOk(Res) THEN "active" ELSE "error"
       IN
       /\ sessions' = [sessions EXCEPT ![s].status = st]
       /\ disk' = update_messages(s, sessions[s].messages)
       /\ Return("prompt", IF IsOk(Res) THEN "ok" ELSE Res.k, cmd.conn, s)
    /\ UNCHANGED <<auxVars, limit, blocked, managerVars, transportVars, processVars, pending_permissions,
                   events, count>>

\* ----------------------------------------------- SessionManager::cancel
CancelNoSession(s) ==
    /\ cmd = Idle
    /\ sessions[s] = NoSession
    /\ blocked' = blocked \ Queued("cancel", s, 0, "")
    /\ cmd' = [Idle EXCEPT !.op = "cancel", !.stage = "returned", !.sess = s,
                            !.res = "session_not_found",
                            !.behind = Behind(Queued("cancel", s, 0, ""))]
    /\ UNCHANGED <<auxVars, limit, managerVars, transportVars, processVars, sessionVars, events, count>>

\* A cancel that leaves the status of the session as it was.
MarkCancelled_Skip(s) == sessions

\* The last step of cancel: the session's status becomes "cancelled".
MarkCancelled(s) == [sessions EXCEPT ![s].status = "cancelled"]

\* cancel: resolve the session-layer pending permissions of the session, ask
\* the transport to write session/cancel, set the status.
Cancel(s) ==
    /\ cmd = Idle
    /\ sessions[s] # NoSession
    /\ Queued("cancel", s, 0, "") # {} \/ count.cancel < limit.cancel
    /\ LET c == sessions[s].connection_id
           to_cancel == {q \in pending_permissions : q.sessionId = s}
           ids == {q.id : q \in to_cancel}
           cs == IF c \in connections THEN {c} ELSE {}
       IN
       /\ waiters' = ResolvedWaiters(cs, ids, "__cancelled__")
       /\ permission_resolvers' = ResolvedTable(cs, ids)
       /\ pending_permissions' = pending_permissions \ to_cancel
       /\ cancel_tasks' = IF c \in connections
                          THEN [cancel_tasks EXCEPT ![c] =
                                   Append(@, [sessionId |-> internal_to_remote(c, s),
                                              meta |-> s])]
                          ELSE cancel_tasks
       /\ sessions' = MarkCancelled(s)
       /\ cmd' = [Idle EXCEPT !.op = "cancel", !.stage = "returned", !.conn = c, !.sess = s,
                               !.res = "ok", !.behind = Behind(Queued("cancel", s, 0, ""))]
    /\ blocked' = blocked \ Queued("cancel", s, 0, "")
    /\ count' = IF Queued("cancel", s, 0, "") # {} THEN count
                 ELSE [count EXCEPT !.cancel = @ + 1]
    /\ UNCHANGED <<auxVars, limit, managerVars, next_id, pending, pending_meta, session_map, completed,
                   child, proc, stdout, readerDone, wire, answered, promised, disk, events>>

\* A cancel written as a request: the line carries an id.
CancelLine_WithId(task) ==
    [id |-> 1, method |-> "session/cancel", sessionId |-> task.sessionId, meta |-> task.meta]

\* The notification AcpClient::cancel builds: no id (0 stands for none).
CancelLine(task) ==
    [id |-> 0, method |-> "session/cancel", sessionId |-> task.sessionId, meta |-> task.meta]

\* The task spawned by AcpClient::cancel writes the notification; a write
\* error is ignored.
CancelWrite(c) ==
    /\ cancel_tasks[c] # <<>>
    /\ cancel_tasks' = [cancel_tasks EXCEPT ![c] = Tail(@)]
    /\ wire' = IF StdinOpen(c)
               THEN [wire EXCEPT ![c] = Append(@, CancelLine(Head(cancel_tasks[c])))]
               ELSE wire
    /\ UNCHANGED <<auxVars, limit, blocked, managerVars, transportVars, child, proc, stdout, readerDone,
                   answered, promised, sessionVars, events, cmd, count>>

\* SessionManager::resolve_permission (session_permission_response).
ResolvePermission(p, option) ==
    /\ cmd = Idle
    /\ Queued("resolve_permission", NoId, p, option) # {} \/ count.resp < limit.resp
    /\ pending_permissions' = {q \in pending_permissions : q.id # p}
    /\ Emit(ResolvedEvent(p))
    /\ waiters' = ResolvedWaiters(connections, {p}, option)
    /\ permission_resolvers' = ResolvedTable(connections, {p})
    /\ count' = IF Queued("resolve_permission", NoId, p, option) # {} THEN count
                 ELSE [count EXCEPT !.resp = @ + 1]
    /\ cmd' = [Idle EXCEPT !.op = "resolve_permission", !.stage = "returned", !.res = "ok",
                            !.id = p, !.opts = {option},
                            !.behind = Behind(Queued("resolve_permission", NoId, p, option))]
    /\ blocked' = blocked \ Queued("resolve_permission", NoId, p, option)
    /\ UNCHANGED <<auxVars, limit, managerVars, next_id, pending, pending_meta, session_map, completed,
                   processVars, sessions, disk>>

\* ---------------------------------------------- session_ensure_connected
\* The frontend asks for the connection of a session whose prompt failed. The
\* command answers with the session's connection id when the session exists
\* and the id is a key of the connections map.
EnsureConnected(s) ==
    /\ cmd = Idle
    /\ sessions[s].status = "error"
    /\ Return("ensure_connected",
              IF sessions[s] # NoSession /\ sessions[s].connection_id \in connections
              THEN "connected" ELSE "not_connected",
              sessions[s].connection_id, s)
    /\ UNCHANGED <<auxVars, limit, blocked, managerVars, transportVars, processVars, sessionVars,
                   events, count>>

\* ------------------------------------------------- session_fork (command)
\* The command looks the source session up, builds a SessionInfo under a
\* fresh uuid that copies the source's connection id and messages, and
\* returns it; it stores the record nowhere and sends nothing to the agent.
SessionFork(s) ==
    /\ cmd = Idle
    /\ limit.sess > 1
    /\ count.sess < limit.sess
    /\ IF sessions[s] = NoSession
       THEN /\ Return("session_fork", "session_not_found", NoConn, s)
            /\ UNCHANGED count
       ELSE /\ count' = [count EXCEPT !.sess = @ + 1]
            /\ Return("session_fork", "ok", sessions[s].connection_id,
                      SessId(count.sess + 1))
    /\ UNCHANGED <<auxVars, limit, blocked, managerVars, transportVars, processVars, sessionVars,
                   events>>

\* --------------------------------------- SessionManager::remove_session
RemoveSession(s) ==
    /\ cmd = Idle
    /\ sessions[s] # NoSession
    /\ LET c == sessions[s].connection_id
           cs == IF c \in connections THEN {c} ELSE {}
       IN
       /\ sessions' = [sessions EXCEPT ![s] = NoSession]
       /\ connections' = connections \ {c}
       /\ TerminateClient(cs)
       /\ disk' = [disk EXCEPT ![s] = NoFile]
       /\ Return("remove_session", "ok", c, s)
    /\ UNCHANGED <<auxVars, limit, blocked, installed, agent_id, next_id, pending_meta, permission_resolvers,
                   session_map, waiters, stdout, readerDone, wire, answered, promised, cancel_tasks,
                   pending_permissions, events, count>>


Next ==
    \/ CommandReturn
    \/ \E a \in Agents : LaunchNotInstalled(a)
    \/ \E a \in Agents, sp \in BOOLEAN : LaunchStart(a, sp)
    \/ \E auth \in BOOLEAN : LaunchInitDone(auth)
    \/ LaunchInitTimeout
    \/ LaunchAuthDone
    \/ LaunchLegacyAuthDone
    \/ \E c \in ConnIds : AgentRespond(c)
    \/ \E c \in ConnIds : AgentBogusResponse(c)
    \/ \E c \in ConnIds : AgentExit(c)
    \/ \E c \in ConnIds : AgentCloseStdout(c)
    \/ \E c \in ConnIds : ReaderStep(c)
    \/ \E c \in ConnIds : ReaderExit(c)
    \/ \E c \in ConnIds : AgentUpdate(c)
    \/ \E c \in ConnIds : AgentPermission(c)
    \/ \E p \in PermIds : WaiterResolved(p)
    \/ \E p \in PermIds : WaiterTimeout(p)
    \/ \E c \in ConnIds : AgentTerminate(c)
    \/ \E a \in Agents : Uninstall(a)
    \/ \E c \in ConnIds : CreateSessionNoConn(c)
    \/ \E c \in ConnIds, opts \in SUBSET {"mode", "model"} : CreateSessionStart(c, opts)
    \/ CreateSessionNewDone
    \/ CreateSessionModeDone
    \/ CreateSessionModelDone
    \/ \E s \in SessIds : PromptNoSession(s)
    \/ \E s \in SessIds : PromptStart(s)
    \/ PromptDone
    \/ \E s \in SessIds : CancelNoSession(s)
    \/ \E s \in SessIds : Cancel(s)
    \/ \E c \in ConnIds : CancelWrite(c)
    \/ \E p \in PermIds, o \in {"allow", "deny"} : ResolvePermission(p, o)
    \/ \E s \in SessIds : RemoveSession(s)
    \/ \E s \in SessIds : EnsureConnected(s)
    \/ \E s \in SessIds : SessionFork(s)
    \/ \E s \in SessIds : SessionCancelBlocked(s)
    \/ \E p \in PermIds, o \in {"allow", "deny"} : SessionPermissionResponseBlocked(p, o)

Spec == Init /\ [][Next]_vars

\* Fair scheduling: the runtime runs every task that can make progress (the
\* reader, the suspended command, the waiters, the cancel writers), timers
\* fire, and the operating system delivers end of file.
ProgramFairness ==
    /\ WF_vars(CommandReturn)
    /\ WF_vars(\E auth \in BOOLEAN : LaunchInitDone(auth))
    /\ WF_vars(LaunchInitTimeout)
    /\ WF_vars(LaunchAuthDone)
    /\ WF_vars(LaunchLegacyAuthDone)
    /\ WF_vars(CreateSessionNewDone)
    /\ WF_vars(CreateSessionModeDone)
    /\ WF_vars(CreateSessionModelDone)
    /\ WF_vars(PromptDone)
    /\ \A c \in ConnIds : /\ WF_vars(ReaderStep(c))
                          /\ WF_vars(ReaderExit(c))
                          /\ WF_vars(CancelWrite(c))
    /\ \A p \in PermIds : WF_vars(WaiterResolved(p)) /\ WF_vars(WaiterTimeout(p))

\* ... and a live agent answers every request it has read.
Fairness ==
    /\ ProgramFairness
    /\ \A c \in ConnIds : WF_vars(AgentRespond(c))

FairSpec == Spec /\ Fairness

\* The program's own scheduling alone: the agent may stay silent for ever.
SilentAgentSpec == Spec /\ ProgramFairness

\* ======================================================================
\* The environment of a launched agent (AgentManager::launch)
\* ======================================================================
MaxEnv == 2

\* Variable names as they are spelled in the maps.
EnvNames == {"PATH", "NODE_OPTIONS", "node_options", "ANTHROPIC_API_KEY"}
LaunchAgents == {"claude-code", "custom-agent"}

BLOCKLIST == {"LD_PRELOAD", "DYLD_INSERT_LIBRARIES", "DYLD_LIBRARY_PATH",
              "NODE_OPTIONS", "NODE_DEBUG"}

to_ascii_uppercase(k) ==
    CASE k = "node_options" -> "NODE_OPTIONS"
      [] OTHER -> k

eq_ignore_ascii_case(a, b) == to_ascii_uppercase(a) = to_ascii_uppercase(b)

get_api_key_env_vars(a) == IF a = "claude-code" THEN {"ANTHROPIC_API_KEY"} ELSE {}

\* A map whose every value comes from the named source.
EnvFrom(names, source) == [k \in names |-> source]

\* HashMap::extend: the entries of n replace those of m.
extend(m, n) == [k \in DOMAIN m \cup DOMAIN n |-> IF k \in DOMAIN n THEN n[k] ELSE m[k]]

\* The API key variables of the agent: the per-variable key if the settings
\* have one, else the legacy single key.
api_key_env(in) ==
    IF in.settings = "none" THEN EmptyEnv
    ELSE LET named == get_api_key_env_vars(in.agent) \cap in.api_keys
             legacy == IF in.api_key THEN get_api_key_env_vars(in.agent) \ named ELSE {}
         IN extend(EnvFrom(named, "api_keys"), EnvFrom(legacy, "api_key"))

custom_env(in) == IF in.settings = "none" THEN EmptyEnv ELSE EnvFrom(in.custom, "custom_env")

\* The entries of extra_env that pass the blocklist.
allowed_extra(in) ==
    EnvFrom({k \in in.extra : ~\E b \in BLOCKLIST : eq_ignore_ascii_case(b, k)}, "extra_env")

\* final_env: the registry's env, then the API keys, then custom_env, then
\* the filtered extra_env, later entries replacing earlier ones.
launch_env(in) ==
    extend(extend(extend(EnvFrom(in.registry, "registry"), api_key_env(in)),
                  custom_env(in)),
           allowed_extra(in))

EnvMaps == {m \in SUBSET EnvNames : Cardinality(m) <= MaxEnv}

LaunchInputs ==
    [agent : LaunchAgents, registry : EnvMaps, settings : {"none", "some"},
     api_keys : SUBSET {"ANTHROPIC_API_KEY"}, api_key : BOOLEAN,
     custom : EnvMaps, extra : EnvMaps]

\* AgentManager::launch up to the spawn: the environment is built.
BuildLaunchEnv(in) ==
    /\ env_in = NoLaunch
    /\ env_in' = in
    /\ final_env' = launch_env(in)
    /\ UNCHANGED <<mainVars, lockVars, stdinVars, storeVars>>

EnvInit == lock_calls = NoCalls /\ limit = Quiet /\ store_limit = NoStore /\ writer_kind = NoWriters /\ Boot
\* One launch is followed: the environments of different launches are independent.
Launches == IF env_in = NoLaunch THEN LaunchInputs ELSE {}
EnvNext == \E in \in Launches : BuildLaunchEnv(in)
EnvSpec == EnvInit /\ [][EnvNext]_vars

\* ======================================================================
\* The thread store (ThreadStore): thread.json, messages.jsonl, thread-cache.json
\* ======================================================================
MaxMsgs == 2
MaxWrites == 3

\* Characters of a file: line feed, backslash, double quote, and letters.
LF == "<LF>"
BS == "<BS>"
Q == "<Q>"

\* A message is a JSON string value, given by the characters of its text.
Messages == {<<Q>>, <<LF>>, <<BS, "n">>}

RECURSIVE ListsUpTo(_)
ListsUpTo(n) ==
    IF n = 0 THEN {<<>>}
    ELSE ListsUpTo(n - 1) \cup {Append(l, m) : l \in {x \in ListsUpTo(n - 1) : Len(x) = n - 1}, m \in Messages}
MessageLists == ListsUpTo(MaxMsgs)

\* serde_json's string escaping leaves a line feed raw.
escape_char_Raw(ch) ==
    CASE ch = BS -> <<BS, BS>>
      [] ch = Q -> <<BS, Q>>
      [] OTHER -> <<ch>>

\* serde_json's string escaping: \n, \\ and \" for line feed, backslash, quote.
escape_char(ch) ==
    CASE ch = LF -> <<BS, "n">>
      [] ch = BS -> <<BS, BS>>
      [] ch = Q -> <<BS, Q>>
      [] OTHER -> <<ch>>

RECURSIVE escape(_)
escape(text) == IF text = <<>> THEN <<>> ELSE escape_char(Head(text)) \o escape(Tail(text))

\* serde_json::to_string of a message: its text, escaped, between quotes.
to_string(msg) == <<Q>> \o escape(msg) \o <<Q>>

\* The loop of writeln! calls: one line per message, each ended by a line feed.
RECURSIVE write_lines(_)
write_lines(msgs) ==
    IF msgs = <<>> THEN <<>>
    ELSE to_string(Head(msgs)) \o <<LF>> \o write_lines(Tail(msgs))

\* BufRead::lines: the file split at line feeds; a last line without a line
\* feed is a line too.
RECURSIVE lines_from(_, _)
lines_from(content, line) ==
    IF content = <<>> THEN (IF line = <<>> THEN <<>> ELSE <<line>>)
    ELSE IF Head(content) = LF THEN <<line>> \o lines_from(Tail(content), <<>>)
    ELSE lines_from(Tail(content), Append(line, Head(content)))
lines(content) == lines_from(content, <<>>)

\* l.trim().is_empty()
is_blank(l) == \A i \in 1..Len(l) : l[i] \in {" ", LF}

\* The text between the quotes, unescaped; the parse fails on a raw quote or
\* line feed and on an escape that is not one of the three.
RECURSIVE unescape(_)
unescape(body) ==
    IF body = <<>> THEN [ok |-> TRUE, v |-> <<>>]
    ELSE IF Head(body) = BS THEN
        IF Len(body) < 2 \/ body[2] \notin {"n", BS, Q} THEN [ok |-> FALSE, v |-> <<>>]
        ELSE LET rest == unescape(SubSeq(body, 3, Len(body)))
                 ch == IF body[2] = "n" THEN LF ELSE body[2]
             IN [ok |-> rest.ok, v |-> <<ch>> \o rest.v]
    ELSE IF Head(body) \in {Q, LF} THEN [ok |-> FALSE, v |-> <<>>]
    ELSE LET rest == unescape(Tail(body))
         IN [ok |-> rest.ok, v |-> <<Head(body)>> \o rest.v]

\* serde_json::from_str of one line.
from_str(l) ==
    IF Len(l) < 2 \/ l[1] # Q \/ l[Len(l)] # Q THEN [ok |-> FALSE, v |-> <<>>]
    ELSE unescape(SubSeq(l, 2, Len(l) - 1))

\* load_thread's reading of messages.jsonl: blank lines and lines that do not
\* parse are skipped.
RECURSIVE parse_lines(_)
parse_lines(ls) ==
    IF ls = <<>> THEN <<>>
    ELSE LET l == Head(ls)
         IN IF is_blank(l) \/ ~from_str(l).ok THEN parse_lines(Tail(ls))
            ELSE <<from_str(l).v>> \o parse_lines(Tail(ls))
read_messages(content) == parse_lines(lines(content))

\* ThreadStore::load_thread: None (here the empty set) without a manifest.
load_thread(session_id, working_dir) ==
    LET dir == thread_dirs[<<session_id, working_dir>>]
    IN IF ~dir.exists THEN {}
       ELSE {[session_id |-> dir.manifest.sessionId,
              title |-> dir.manifest.title,
              working_dir |-> dir.manifest.workingDir,
              updated_at |-> dir.manifest.updatedAt,
              messages |-> read_messages(dir.messages)]}

\* threads.sort_by(|a, b| b.updated_at.cmp(&a.updated_at))
SortedByUpdatedAt(threads) ==
    CHOOSE q \in [1..Cardinality(threads) -> threads] :
        /\ \A i, j \in DOMAIN q : i # j => q[i] # q[j]
        /\ \A i, j \in DOMAIN q : i < j => q[i].updated_at >= q[j].updated_at

\* ThreadStore::load_all: the threads of the cache's entries that load.
load_all ==
    SortedByUpdatedAt(UNION {load_thread(t, thread_cache[t].workingDir) :
                             t \in {x \in StoreIds : thread_cache[x] # NoEntry}})

\* The runs of the store explored:
\*   StoreMessages: one thread in one directory, every message list
\*   StoreIndex:    two threads in three directories, rename, remove, rebuild
\*   StoreCrash:    one thread, writes that stop part-way
StoreMessages ==
    [ids |-> {"t1"}, dirs |-> {"p/a"}, lists |-> MessageLists, titles |-> {"T0"},
     writes |-> MaxWrites, index |-> FALSE, crash |-> FALSE]
StoreIndex ==
    [ids |-> StoreIds, dirs |-> WorkDirs, lists |-> {<<>>, <<<<LF>>>>}, titles |-> {"T0"},
     writes |-> 3, index |-> TRUE, crash |-> FALSE]
StoreCrash ==
    [ids |-> {"t1"}, dirs |-> {"p/a"}, lists |-> ListsUpTo(1), titles |-> {"T0"},
     writes |-> 2, index |-> FALSE, crash |-> TRUE]
StoreScenarios == {StoreMessages, StoreIndex, StoreCrash}

\* What the frontend may pass in this run.
StoreSessions ==
    [sessionId : store_limit.ids, workingDir : store_limit.dirs,
     title : store_limit.titles, messages : store_limit.lists]
NewTitles == IF store_limit.index THEN {"T1"} ELSE {}

\* ThreadStore::save.
Save(session) ==
    LET manifest == [sessionId |-> session.sessionId, title |-> session.title,
                     workingDir |-> session.workingDir, updatedAt |-> now,
                     workspaceId |-> NoId]
    IN /\ now <= store_limit.writes
       /\ thread_dirs' = [thread_dirs EXCEPT ![<<session.sessionId, session.workingDir>>] =
                             [exists |-> TRUE, manifest |-> manifest,
                              messages |-> write_lines(session.messages)]]
       /\ thread_cache' = [thread_cache EXCEPT ![session.sessionId] = manifest]
       /\ now' = now + 1
       /\ store_op' = "save"
       /\ last_write' = [last_write EXCEPT ![session.sessionId] =
                            [workingDir |-> session.workingDir, messages |-> session.messages]]
       /\ loaded' = <<>>
       /\ interrupted' = NoCrash
       /\ UNCHANGED <<mainVars, lockVars, stdinVars, envVars, store_limit>>

\* ThreadStore::save stopped after k characters of messages.jsonl: the
\* manifest is written, the cache is not.
SaveInterrupted(session, k) ==
    LET manifest == [sessionId |-> session.sessionId, title |-> session.title,
                     workingDir |-> session.workingDir, updatedAt |-> now,
                     workspaceId |-> NoId]
        d == <<session.sessionId, session.workingDir>>
    IN /\ store_limit.crash
       /\ now <= store_limit.writes
       /\ k < Len(write_lines(session.messages))
       /\ thread_dirs' = [thread_dirs EXCEPT ![d] =
                             [exists |-> TRUE, manifest |-> manifest,
                              messages |-> SubSeq(write_lines(session.messages), 1, k)]]
       /\ now' = now + 1
       /\ store_op' = "save interrupted"
       /\ interrupted' = [dir |-> d, before |-> thread_dirs[d].messages,
                          after |-> write_lines(session.messages)]
       /\ last_write' = [last_write EXCEPT ![session.sessionId] = NoWrite]
       /\ loaded' = <<>>
       /\ UNCHANGED <<mainVars, lockVars, stdinVars, envVars, thread_cache, store_limit>>

\* ThreadStore::update_messages on a thread directory that does not exist.
UpdateMessagesNoDir(session_id, working_dir, messages) ==
    /\ ~thread_dirs[<<session_id, working_dir>>].exists
    /\ store_op # "update_messages"
    /\ store_op' = "update_messages"
    /\ loaded' = <<>>
    /\ interrupted' = NoCrash
    /\ UNCHANGED <<mainVars, lockVars, stdinVars, envVars, thread_dirs, thread_cache, now, last_write, store_limit>>

\* ThreadStore::update_messages: messages.jsonl rewritten, updatedAt bumped.
UpdateMessages(session_id, working_dir, messages) ==
    /\ thread_dirs[<<session_id, working_dir>>].exists
    /\ now <= store_limit.writes
    /\ thread_dirs' = [thread_dirs EXCEPT ![<<session_id, working_dir>>] =
                          [@ EXCEPT !.messages = write_lines(messages),
                                    !.manifest.updatedAt = now]]
    /\ now' = now + 1
    /\ store_op' = "update_messages"
    /\ last_write' = IF last_write[session_id].workingDir = working_dir
                      THEN [last_write EXCEPT ![session_id].messages = messages]
                      ELSE last_write
    /\ loaded' = <<>>
    /\ interrupted' = NoCrash
    /\ UNCHANGED <<mainVars, lockVars, stdinVars, envVars, thread_cache, store_limit>>

\* ThreadStore::update_messages stopped after k characters of messages.jsonl:
\* File::create has truncated the file, the manifest is not reached.
UpdateMessagesInterrupted(session_id, working_dir, messages, k) ==
    LET d == <<session_id, working_dir>>
    IN /\ store_limit.crash
       /\ thread_dirs[d].exists
       /\ k < Len(write_lines(messages))
       /\ thread_dirs' = [thread_dirs EXCEPT ![d].messages = SubSeq(write_lines(messages), 1, k)]
       /\ store_op' = "update_messages interrupted"
       /\ interrupted' = [dir |-> d, before |-> thread_dirs[d].messages,
                          after |-> write_lines(messages)]
       /\ last_write' = [last_write EXCEPT ![session_id] = NoWrite]
       /\ loaded' = <<>>
       /\ UNCHANGED <<mainVars, lockVars, stdinVars, envVars, thread_cache, now, store_limit>>

\* A rename that leaves the cache as it was.
RenamedCache_Stale(session_id, title) == thread_cache

\* The cache after ThreadStore::rename: the entry's title, if there is an entry.
RenamedCache(session_id, title) ==
    IF thread_cache[session_id] = NoEntry THEN thread_cache
    ELSE [thread_cache EXCEPT ![session_id].title = title]

\* ThreadStore::rename: title and updatedAt in the manifest, title in the cache.
Rename(session_id, working_dir, title) ==
    /\ thread_dirs[<<session_id, working_dir>>].exists
    /\ now <= store_limit.writes
    /\ thread_dirs' = [thread_dirs EXCEPT ![<<session_id, working_dir>>] =
                          [@ EXCEPT !.manifest.title = title, !.manifest.updatedAt = now]]
    /\ thread_cache' = RenamedCache(session_id, title)
    /\ now' = now + 1
    /\ store_op' = "rename"
    /\ loaded' = <<>>
    /\ interrupted' = NoCrash
    /\ UNCHANGED <<mainVars, lockVars, stdinVars, envVars, last_write, store_limit>>

\* ThreadStore::rename without a manifest at that path: only the cache changes.
RenameNoManifest(session_id, working_dir, title) ==
    /\ ~thread_dirs[<<session_id, working_dir>>].exists
    /\ thread_cache' = RenamedCache(session_id, title)
    /\ store_op' = "rename"
    /\ loaded' = <<>>
    /\ interrupted' = NoCrash
    /\ UNCHANGED <<mainVars, lockVars, stdinVars, envVars, thread_dirs, now, last_write, store_limit>>

\* A remove that leaves the cache as it was.
RemovedCache_Stale(session_id) == thread_cache

\* The cache after ThreadStore::remove: cache.remove(session_id).
RemovedCache(session_id) == [thread_cache EXCEPT ![session_id] = NoEntry]

\* ThreadStore::remove: the directory deleted, the entry taken out of the cache.
Remove(session_id, working_dir) ==
    /\ store_limit.index
    /\ thread_dirs' = [thread_dirs EXCEPT ![<<session_id, working_dir>>] = NoDir]
    /\ thread_cache' = RemovedCache(session_id)
    /\ store_op' = "remove"
    /\ last_write' = [last_write EXCEPT ![session_id] = NoWrite]
    /\ loaded' = <<>>
    /\ interrupted' = NoCrash
    /\ UNCHANGED <<mainVars, lockVars, stdinVars, envVars, now, store_limit>>

\* The registered workspaces (WorkspaceService::list), as (id, path).
Workspaces == <<[id |-> "ws1", path |-> "p/a"], [id |-> "ws2", path |-> "p/b"]>>

\* base_dir.parent(): the directory holding the workspace root.
Parent(dir) == IF dir \in {"p/a", "p/b"} THEN "p" ELSE "q"

\* The order in which read_dir yields the directories next to a workspace root.
DirOrder == <<"p/a", "p/b", "q/c">>

\* The threads with a manifest under <dir>/.agent/threads/.
ManifestsUnder(dir) == {t \in StoreIds : thread_dirs[<<t, dir>>].exists}

\* entry = manifest.clone(); entry["workspaceId"] = workspace_id
CacheEntry(t, dir, workspace_id) ==
    [thread_dirs[<<t, dir>>].manifest EXCEPT !.workspaceId = workspace_id]

\* The loop over a workspace's own .agent/threads/: cache.insert replaces.
scan_workspace(cache, ws) ==
    [t \in StoreIds |-> IF t \in ManifestsUnder(ws.path) THEN CacheEntry(t, ws.path, ws.id)
                        ELSE cache[t]]

\* One directory of scan_worktrees_for_threads: insert unless the key is there.
scan_worktree_dir(cache, ws, dir) ==
    [t \in StoreIds |-> IF t \in ManifestsUnder(dir) /\ cache[t] = NoEntry
                        THEN CacheEntry(t, dir, ws.id)
                        ELSE cache[t]]

\* scan_worktrees_for_threads: every directory next to the workspace root.
RECURSIVE scan_worktrees_for_threads(_, _, _)
scan_worktrees_for_threads(cache, ws, ds) ==
    IF ds = <<>> THEN cache
    ELSE scan_worktrees_for_threads(
             IF Parent(Head(ds)) = Parent(ws.path) THEN scan_worktree_dir(cache, ws, Head(ds))
             ELSE cache,
             ws, Tail(ds))

RECURSIVE rebuild_from(_, _)
rebuild_from(cache, wss) ==
    IF wss = <<>> THEN cache
    ELSE rebuild_from(scan_worktrees_for_threads(scan_workspace(cache, Head(wss)),
                                                 Head(wss), DirOrder),
                      Tail(wss))

\* ThreadStore::rebuild_cache over the registered workspaces.
rebuild_cache == rebuild_from([t \in StoreIds |-> NoEntry], Workspaces)

\* session_rebuild_cache, and the rebuild at startup.
RebuildCache ==
    /\ store_limit.index
    /\ store_op # "rebuild_cache"
    /\ thread_cache' = rebuild_cache
    /\ store_op' = "rebuild_cache"
    /\ last_write' = [t \in StoreIds |-> NoWrite]
    /\ loaded' = <<>>
    /\ interrupted' = NoCrash
    /\ UNCHANGED <<mainVars, lockVars, stdinVars, envVars, thread_dirs, now, store_limit>>

\* ThreadStore::load_all.
LoadAll ==
    /\ store_op # "load_all"
    /\ loaded' = load_all
    /\ store_op' = "load_all"
    /\ interrupted' = NoCrash
    /\ UNCHANGED <<mainVars, lockVars, stdinVars, envVars, thread_dirs, thread_cache, now, last_write, store_limit>>

\* A line is at most six characters long.
CrashPoints == IF store_limit.crash THEN 0..(MaxMsgs * 6) ELSE {}

StoreInit == lock_calls = NoCalls /\ limit = Quiet /\ store_limit \in StoreScenarios /\ writer_kind = NoWriters /\ Boot
StoreNext ==
    \/ \E session \in StoreSessions : Save(session)
    \/ \E session \in StoreSessions, k \in CrashPoints : SaveInterrupted(session, k)
    \/ \E t \in store_limit.ids, w \in store_limit.dirs, m \in store_limit.lists :
           UpdateMessagesNoDir(t, w, m)
    \/ \E t \in store_limit.ids, w \in store_limit.dirs, m \in store_limit.lists :
           UpdateMessages(t, w, m)
    \/ \E t \in store_limit.ids, w \in store_limit.dirs, m \in store_limit.lists, k \in CrashPoints :
           UpdateMessagesInterrupted(t, w, m, k)
    \/ \E t \in store_limit.ids, w \in store_limit.dirs, title \in NewTitles :
           Rename(t, w, title)
    \/ \E t \in store_limit.ids, w \in store_limit.dirs, title \in NewTitles :
           RenameNoManifest(t, w, title)
    \/ \E t \in store_limit.ids, w \in store_limit.dirs : Remove(t, w)
    \/ RebuildCache
    \/ LoadAll
StoreSpec == StoreInit /\ [][StoreNext]_vars

\* ======================================================================
\* Writes to the subprocess's stdin (AcpClient.stdin)
\* ======================================================================
\* The byte k of the line of writer w.
Byte(w, k) == <<w, k>>
Bytes(w, from, to) == [i \in 1..(to - from + 1) |-> Byte(w, from + i - 1)]

\* A writer that starts to write without the mutex.
WriterLock_NoMutex(w) ==
    /\ writer_kind[w] # "none"
    /\ writer_pc[w] = "start"
    /\ writer_pc' = [writer_pc EXCEPT ![w] = "writing"]
    /\ UNCHANGED <<mainVars, lockVars, envVars, storeVars, stdin_owner, stdin_stream, writer_kind,
                   writer_sent, pipe_open>>

\* stdin.lock().await: the writer goes on when the mutex is free and holds it.
WriterLock(w) ==
    /\ writer_kind[w] # "none"
    /\ writer_pc[w] = "start"
    /\ stdin_owner = 0
    /\ stdin_owner' = w
    /\ writer_pc' = [writer_pc EXCEPT ![w] = "writing"]
    /\ UNCHANGED <<mainVars, lockVars, envVars, storeVars, stdin_stream, writer_kind, writer_sent, pipe_open>>

\* write_all: one write to the pipe takes the next n bytes of what is left.
WriterWrite(w, n) ==
    /\ writer_pc[w] = "writing"
    /\ pipe_open
    /\ writer_sent[w] + n <= LineLen
    /\ stdin_stream' = stdin_stream \o Bytes(w, writer_sent[w] + 1, writer_sent[w] + n)
    /\ writer_sent' = [writer_sent EXCEPT ![w] = @ + n]
    /\ UNCHANGED <<mainVars, lockVars, envVars, storeVars, stdin_owner, writer_kind, writer_pc, pipe_open>>

\* The guard of the mutex is dropped when the writer leaves its block.
Unlock(w) == IF stdin_owner = w THEN 0 ELSE stdin_owner

\* write_all has written the whole line (flush does nothing on a pipe): the
\* guard is dropped.
WriterFinish(w) ==
    /\ writer_pc[w] = "writing"
    /\ writer_sent[w] = LineLen
    /\ stdin_owner' = Unlock(w)
    /\ writer_pc' = [writer_pc EXCEPT ![w] = "done"]
    /\ UNCHANGED <<mainVars, lockVars, envVars, storeVars, stdin_stream, writer_kind, writer_sent, pipe_open>>

\* A write to the closed pipe fails: send_request_with_meta returns the error
\* through '?', the task of cancel ignores it; either way the guard is dropped.
WriterFail(w) ==
    /\ writer_pc[w] = "writing"
    /\ ~pipe_open
    /\ writer_sent[w] < LineLen
    /\ stdin_owner' = Unlock(w)
    /\ writer_pc' = [writer_pc EXCEPT ![w] = IF writer_kind[w] = "request" THEN "failed" ELSE "done"]
    /\ UNCHANGED <<mainVars, lockVars, envVars, storeVars, stdin_stream, writer_kind, writer_sent, pipe_open>>

\* The subprocess exits or closes its stdin.
PipeClose ==
    /\ pipe_open
    /\ \E w \in Writers : writer_kind[w] # "none"
    /\ pipe_open' = FALSE
    /\ UNCHANGED <<mainVars, lockVars, envVars, storeVars, stdin_owner, stdin_stream, writer_kind,
                   writer_pc, writer_sent>>

WriterKinds == [Writers -> {"request", "cancel"}]
StdinInit == lock_calls = NoCalls /\ limit = Quiet /\ store_limit = NoStore /\ writer_kind \in WriterKinds /\ Boot
StdinNext ==
    \/ \E w \in Writers : WriterLock(w)
    \/ \E w \in Writers, n \in 1..LineLen : WriterWrite(w, n)
    \/ \E w \in Writers : WriterFinish(w)
    \/ \E w \in Writers : WriterFail(w)
    \/ PipeClose
StdinSpec == StdinInit /\ [][StdinNext]_vars

\* ======================================================================
\* The top-level mutexes of AppState, as the command handlers take them
\* ======================================================================
L(m) == [op |-> "lock", m |-> m]
U(m) == [op |-> "unlock", m |-> m]

\* The lock() calls of a handler in program order; a guard that lives in an
\* inner block is dropped at the end of the block, the others when the
\* handler returns.
LockProgram(c) ==
    CASE c = "agent_install" ->
            <<L("registry"), U("registry"), L("download"), L("settings"), L("agents"),
              L("registry")>>
      [] c = "agent_launch" -> <<L("settings"), L("registry"), L("agents")>>
      [] c = "session_create" ->
            <<L("settings"), L("git"), U("git"), U("settings"),
              L("settings"), L("thread_store"), L("agents"), L("sessions")>>
      [] c = "session_prompt" ->
            <<L("settings"), L("thread_store"), L("agents"), L("sessions")>>
      [] c = "session_cancel" -> <<L("agents"), L("sessions")>>
      [] c = "session_remove" ->
            <<L("thread_store"), L("agents"), L("sessions"), L("git"), L("workspaces")>>
      [] c = "session_rebuild_cache" -> <<L("workspaces"), L("thread_store")>>
      [] c = "session_ensure_connected" -> <<L("sessions"), L("agents")>>
Commands == {"agent_install", "agent_launch", "session_create", "session_prompt",
             "session_cancel", "session_remove", "session_rebuild_cache",
             "session_ensure_connected"}

\* The mutexes whose guard the task holds after the steps it has taken.
HeldAfter(prog, n) ==
    {prog[i].m : i \in {k \in 1..n : /\ prog[k].op = "lock"
                                      /\ ~\E u \in (k + 1)..n :
                                            prog[u] = U(prog[k].m)}}
HeldBy(t) == IF lock_cmd[t] = "none" THEN {}
             ELSE HeldAfter(LockProgram(lock_cmd[t]), lock_pos[t])
\* The step the task is at, if it has one left.
Running(t) == lock_cmd[t] # "none" /\ lock_pos[t] < Len(LockProgram(lock_cmd[t]))
NextStep(t) == LockProgram(lock_cmd[t])[lock_pos[t] + 1]

\* The frontend invokes a command; a handler task starts to run it.
Invoke(t, c) ==
    /\ lock_cmd[t] = "none"
    /\ lock_calls[t] < MaxCalls
    /\ lock_cmd' = [lock_cmd EXCEPT ![t] = c]
    /\ lock_pos' = [lock_pos EXCEPT ![t] = 0]
    /\ lock_calls' = [lock_calls EXCEPT ![t] = @ + 1]
    /\ UNCHANGED <<mainVars, envVars, storeVars, stdinVars>>

\* Mutex::lock(): returns when no guard of the mutex is alive (the task's own
\* guard included: std's Mutex is not reentrant).
LockStep(t) ==
    /\ Running(t)
    /\ NextStep(t).op = "lock"
    /\ \A t2 \in Tasks : NextStep(t).m \notin HeldBy(t2)
    /\ lock_pos' = [lock_pos EXCEPT ![t] = @ + 1]
    /\ UNCHANGED <<mainVars, envVars, storeVars, stdinVars, lock_cmd, lock_calls>>

\* The end of an inner block drops its guard.
UnlockStep(t) ==
    /\ Running(t)
    /\ NextStep(t).op = "unlock"
    /\ lock_pos' = [lock_pos EXCEPT ![t] = @ + 1]
    /\ UNCHANGED <<mainVars, envVars, storeVars, stdinVars, lock_cmd, lock_calls>>

\* The handler returns: every guard it still holds is dropped.
HandlerReturn(t) ==
    /\ lock_cmd[t] # "none"
    /\ ~Running(t)
    /\ lock_cmd' = [lock_cmd EXCEPT ![t] = "none"]
    /\ lock_pos' = [lock_pos EXCEPT ![t] = 0]
    /\ UNCHANGED <<mainVars, envVars, storeVars, stdinVars, lock_calls>>

NoCallsYet == [t \in Tasks |-> 0]
LockInit == lock_calls = NoCallsYet /\ limit = Quiet /\ store_limit = NoStore
            /\ writer_kind = NoWriters /\ Boot
LockNext ==
    \/ \E t \in Tasks, c \in Commands : Invoke(t, c)
    \/ \E t \in Tasks : LockStep(t)
    \/ \E t \in Tasks : UnlockStep(t)
    \/ \E t \in Tasks : HandlerReturn(t)
LockSpec == LockInit /\ [][LockNext]_vars

\* ======================================================================
\* Properties
\* ======================================================================

\* C1: every request-table entry that send_request inserted is eventually
\* removed (by a response, an ACP error, a timeout or termination); no entry
\* stays in the table forever, also when the write to stdin failed.
C1_EntryEventuallyRemoved ==
    \A c \in ConnIds : \A i \in ReqIds : (i \in pending[c]) ~> (i \notin pending[c])

\* C2: a response (non-null id, no method) whose id is the id of a pending
\* entry completes exactly that entry, with Ok(result) or the ACP error, and
\* removes it; a response whose id is the id of no pending entry is dropped
\* and leaves every pending entry as it was.
IdOfPending(c, wid) == wid.t = "u64" /\ wid.hi = 0 /\ wid.lo \in pending[c]
C2_ResponseStep(c) ==
    LET msg == Head(stdout[c]) IN
    (ReaderStep(c) /\ msg.t = "resp") =>
        IF IdOfPending(c, msg.id)
        THEN /\ pending'[c] = pending[c] \ {msg.id.lo}
             /\ completed'[c][msg.id.lo].k = (IF msg.err # "" THEN "acp" ELSE "ok")
             /\ \A i \in ReqIds \ {msg.id.lo} : completed'[c][i] = completed[c][i]
        ELSE /\ pending'[c] = pending[c]
             /\ completed'[c] = completed[c]
C2_ResponseCompletesItsRequest == [][\A c \in ConnIds : C2_ResponseStep(c)]_vars

\* C3: when the agent's stdout closes, every request pending at that moment
\* completes with Err("Agent process exited") and the table is empty
\* afterwards; a prompt in flight then returns that error.
C3_ExitStep(c) ==
    (~readerDone[c] /\ readerDone'[c]) =>
        /\ pending'[c] = {}
        /\ \A i \in pending[c] : completed'[c][i] = Exited
C3_PromptStep ==
    (/\ cmd.op = "prompt" /\ cmd.stage = "session/prompt" /\ cmd.wrote
     /\ completed[cmd.conn][cmd.id] = Exited
     /\ cmd'.stage = "returned") => cmd'.res = "exited"
C3_StdoutCloseRejectsPending ==
    [][(\A c \in ConnIds : C3_ExitStep(c)) /\ C3_PromptStep]_vars
C3_Witness == Returned("prompt") /\ cmd.res = "exited" /\ pending[cmd.conn] = {}

\* C4: terminate on a transport kills the subprocess and completes every
\* pending request with Err("Agent terminated"), leaving the table empty; it
\* can always run to completion at once, whatever the agent is doing.
C4_TerminateStep(c) ==
    (c \in connections /\ c \notin connections') =>
        /\ ~child'[c] /\ proc'[c] = "dead"
        /\ pending'[c] = {}
        /\ \A i \in pending[c] : completed'[c][i] = Terminated
C4_TerminateRejectsPending ==
    [][\A c \in ConnIds :
          /\ C4_TerminateStep(c)
          /\ (cmd = Idle /\ c \in connections) => ENABLED AgentTerminate(c)]_vars
C4_Witness ==
    \E c \in ConnIds : /\ c \notin connections /\ pending[c] = {}
                       /\ \E i \in ReqIds : completed[c][i] = Terminated

\* C5: the session:update events emitted for one agent's updates of a given
\* session id appear in the order the agent wrote them, each at most once.
AgentUpdates(c, sid) ==
    SelectSeq(events, LAMBDA e : /\ e.type = "session:update" /\ e.status = "agent"
                                 /\ e.conn = c /\ e.sessionId = sid)
C5_UpdatesInOrder ==
    \A c \in ConnIds : \A sid \in SessIds \cup RemoteIds :
        LET us == AgentUpdates(c, sid) IN
        \A i \in 1..Len(us) : \A j \in 1..Len(us) : i < j => us[i].n < us[j].n
C5_Witness ==
    \E c \in ConnIds : \E sid \in SessIds \cup RemoteIds : Len(AgentUpdates(c, sid)) >= 2

\* C6: once the agent has answered session/new of internal id I with remote
\* id R, every update or permission request it writes afterwards for R is
\* emitted with sessionId I, and every broker request for I carries R.
C6_TranslationTotal ==
    /\ \A k \in 1..Len(events) :
          LET e == events[k] IN
          (/\ e.type \in {"session:update", "session:permission-request"}
           /\ e.status \in {"agent", ""}
           /\ e.exp # NoId) => e.sessionId = e.exp
    /\ \A c \in ConnIds : \A k \in 1..Len(wire[c]) :
          LET l == wire[c][k] IN
          (l.meta # NoId /\ l.method # "session/new") =>
              (l.sessionId \in RemoteIds /\ promised[c][l.sessionId] = l.meta)

\* C7: every session refers to a connection that is in the connections map,
\* or that was terminated, and then the session's status is not "active".
C7_SessionConnectionLive ==
    \A s \in SessIds :
        sessions[s] # NoSession =>
            \/ sessions[s].connection_id \in connections
            \/ sessions[s].status # "active"

\* C8: when prompt returns for a session that exists, the status is "active"
\* after Ok and "error" after Err, never "prompting".
C8_StatusAfterPrompt ==
    (Returned("prompt") /\ sessions[cmd.sess] # NoSession) =>
        sessions[cmd.sess].status = (IF cmd.res = "ok" THEN "active" ELSE "error")

\* C9: when prompt returns for a persisted session, with Ok or Err,
\* messages.jsonl equals the in-memory message list.
C9_MessagesPersisted ==
    (Returned("prompt") /\ sessions[cmd.sess] # NoSession /\ disk[cmd.sess].exists) =>
        disk[cmd.sess].lines = sessions[cmd.sess].messages

\* C10: after cancel(sessionId) returned, the permission table of the owning
\* transport holds no entry that belongs to that session.
C10_CancelClearsPermissions ==
    (Returned("cancel") /\ cmd.res = "ok") =>
        \A p \in PermIds :
            p \in permission_resolvers[cmd.conn] => waiters[p].sess # cmd.sess

\* C12: when cancel(sessionId) is called while a prompt of that session is in
\* flight, the status is "cancelled" once cancel has returned, and the
\* completion of a prompt in flight never overwrites a "cancelled" status.
C12_Step(s) ==
    /\ (Returned("cancel") /\ cmd.res = "ok" /\ cmd.sess = s) =>
           sessions[s].status = "cancelled"
    /\ (/\ cmd.op = "prompt" /\ cmd.sess = s /\ cmd.stage # "returned"
        /\ cmd'.op = "prompt" /\ cmd'.stage = "returned"
        /\ sessions[s].status = "cancelled") => sessions'[s].status = "cancelled"
C12_CancelledIsAuthoritative == [][\A s \in SessIds : C12_Step(s)]_vars
C12_Witness ==
    /\ Returned("cancel") /\ cmd.res = "ok"
    /\ cmd.behind = [op |-> "prompt", sess |-> cmd.sess]
    /\ sessions[cmd.sess].status = "cancelled"

\* C13: session_cancel and session_permission_response never wait for a
\* request in flight: no invocation of either is blocked while the command in
\* flight is suspended in the await of a response.
C13_NeverWaitsBehindRequest ==
    \A b \in blocked : b.op \in {"cancel", "resolve_permission"} => ~Suspended

\* C14: a command that is suspended waiting for a JSON-RPC response holds
\* none of the top-level mutexes.
C14_NoLockAcrossAwait == Suspended => Held = {}

\* C11: cancel(sessionId) on a session whose agent subprocess is live inserts
\* no request-table entry and awaits nothing; it hands exactly one
\* session/cancel notification to the writer task, which writes it as one
\* line carrying the remote session id and no id.
C11_CancelStep(s) ==
    (cmd.op = "idle" /\ cmd'.op = "cancel" /\ cmd'.res = "ok" /\ cmd'.sess = s
     /\ cmd'.conn \in connections) =>
        LET c == cmd'.conn IN
        /\ cmd'.stage = "returned"
        /\ pending' = pending /\ next_id' = next_id /\ wire' = wire
        /\ session_map[c].i2r[s] \in RemoteIds
        /\ cancel_tasks'[c] = Append(cancel_tasks[c],
                                     [sessionId |-> session_map[c].i2r[s], meta |-> s])
C11_WriteStep(c) ==
    (cancel_tasks[c] # <<>> /\ cancel_tasks'[c] = Tail(cancel_tasks[c]) /\ StdinOpen(c)) =>
        /\ Len(wire'[c]) = Len(wire[c]) + 1
        /\ wire'[c][Len(wire'[c])].method = "session/cancel"
        /\ wire'[c][Len(wire'[c])].id = 0
        /\ wire'[c][Len(wire'[c])].sessionId = Head(cancel_tasks[c]).sessionId
        /\ pending' = pending
C11_CancelIsOneNotification ==
    [][(\A s \in SessIds : C11_CancelStep(s)) /\ (\A c \in ConnIds : C11_WriteStep(c))]_vars
C11_Witness ==
    \E c \in ConnIds : \E k \in 1..Len(wire[c]) :
        /\ wire[c][k].method = "session/cancel" /\ wire[c][k].id = 0
        /\ wire[c][k].sessionId \in RemoteIds
        /\ Returned("cancel") /\ cmd.res = "ok"

\* C15: when the frontend answers a pending permission request of a live
\* transport with session_permission_response(requestId, optionId), the slot
\* of requestId completes with optionId, the entry leaves the permission
\* table and session:permission-resolved with that requestId is emitted.
C15_Step(c) ==
    (/\ cmd.op = "idle" /\ cmd'.op = "resolve_permission"
     /\ c \in connections /\ cmd'.id \in permission_resolvers[c]) =>
        LET p == cmd'.id IN
        /\ p \notin permission_resolvers'[c]
        /\ waiters'[p].state = "sent"
        /\ {waiters'[p].option} = cmd'.opts
        /\ events' = Append(events, ResolvedEvent(p))
PermissionAnswers(c) == {k \in 1..Len(wire[c]) : wire[c][k].method = "response"}
C16_PermissionAnswered ==
    \A p \in PermIds :
        waiters[p].state = "done" => PermissionAnswers(waiters[p].conn) # {}

\* C17: every permission-table entry is eventually removed, by the frontend's
\* decision or by the timeout, and session:permission-resolved with its
\* requestId has then been emitted.
C17_EntryEventuallyRemoved ==
    \A c \in ConnIds : \A p \in PermIds :
        (p \in permission_resolvers[c]) ~>
            (/\ p \notin permission_resolvers[c]
             /\ \E k \in 1..Len(events) : events[k] = ResolvedEvent(p))
C17_Witness ==
    \E p \in PermIds :
        /\ waiters[p].state = "done" /\ waiters[p].option = "__cancelled__"
        /\ p \notin permission_resolvers[waiters[p].conn]
        /\ \E k \in 1..Len(events) : events[k] = ResolvedEvent(p)

\* C18: authenticate sends the legacy authenticate request only when
\* connection/authenticate failed with JSON-RPC code -32601; any other error
\* ends authenticate without a second request.
C18_LegacyOnlyOnMethodNotFound ==
    [][(/\ cmd.op = "launch" /\ cmd.stage = "connection/authenticate"
        /\ cmd'.op = "launch" /\ cmd'.stage = "authenticate") =>
           (Res.k = "acp" /\ ErrCode(Res.v) = MethodNotFound)]_vars

\* C19: the environment handed to the subprocess never contains a variable
\* whose name equals, ignoring ASCII case, LD_PRELOAD, DYLD_INSERT_LIBRARIES,
\* DYLD_LIBRARY_PATH, NODE_OPTIONS or NODE_DEBUG, whatever the registry's env,
\* the agent's customEnv and the caller's extraEnv contain.
C19_NoBlockedVariable ==
    \A k \in DOMAIN final_env : \A b \in BLOCKLIST : ~eq_ignore_ascii_case(b, k)

\* C20: after save(session) followed by any number of update_messages calls
\* for that session, load_all returns a thread for the session whose messages
\* equal the list passed to the last write (the saved list if there was no
\* update_messages).
C20_LoadReturnsLastWritten ==
    \A t \in StoreIds :
        (store_op = "load_all" /\ last_write[t] # NoWrite) =>
            \E i \in DOMAIN loaded : /\ loaded[i].session_id = t
                                     /\ loaded[i].messages = last_write[t].messages

\* A load after a save and two update_messages, the last list holding a line
\* feed and a backslash.
C20_Witness ==
    /\ store_op = "load_all"
    /\ now = 4
    /\ thread_cache["t1"].updatedAt = 1
    /\ last_write["t1"].messages = <<<<LF>>, <<BS, "n">>>>
    /\ Len(loaded) = 1

\* C21: after rename(sessionId, workingDir, title) on a saved thread, loading
\* the thread returns the new title, the manifest and the cache entry carry
\* the new title, and the manifest's other fields (updatedAt apart) and the
\* message list are unchanged.
C21_Step(t, w, title) ==
    LET d == <<t, w>>
    IN (thread_cache[t] # NoEntry /\ store_op' = "rename" /\ Rename(t, w, title)) =>
          /\ \E th \in (load_thread(t, w))' : th.title = title
          /\ thread_dirs'[d].manifest = [thread_dirs[d].manifest EXCEPT
                                            !.title = title,
                                            !.updatedAt = thread_dirs'[d].manifest.updatedAt]
          /\ thread_cache'[t].title = title
          /\ thread_dirs'[d].messages = thread_dirs[d].messages
          /\ \A th \in load_thread(t, w) : \E th2 \in (load_thread(t, w))' :
                 th2.messages = th.messages

C21_RenameSetsTitle ==
    [][\A t \in StoreIds, w \in WorkDirs, title \in {"T0", "T1"} : C21_Step(t, w, title)]_vars

\* A saved thread with a message, renamed: manifest and cache say T1.
C21_Witness ==
    /\ store_op = "rename"
    /\ thread_dirs[<<"t1", "p/a">>].exists
    /\ thread_dirs[<<"t1", "p/a">>].manifest.title = "T1"
    /\ thread_dirs[<<"t1", "p/a">>].messages # <<>>
    /\ thread_cache["t1"].title = "T1"
    /\ thread_cache["t1"].workingDir = "p/a"

\* C22: after remove(sessionId, workingDir) on a saved thread the thread
\* directory is gone, the cache has no entry for the session, load_all does
\* not return the thread, and the other sessions' directories and cache
\* entries are as before.
C22_Step(t, w) ==
    (thread_dirs[<<t, w>>].exists /\ store_op' = "remove" /\ Remove(t, w)) =>
        /\ ~thread_dirs'[<<t, w>>].exists
        /\ thread_cache'[t] = NoEntry
        /\ \A threads \in {load_all'} :
              \A i \in DOMAIN threads : threads[i].session_id # t
        /\ \A t2 \in StoreIds \ {t} :
               /\ thread_cache'[t2] = thread_cache[t2]
               /\ \A w2 \in WorkDirs : thread_dirs'[<<t2, w2>>] = thread_dirs[<<t2, w2>>]

C22_RemoveDeletesThread ==
    [][\A t \in StoreIds, w \in WorkDirs : C22_Step(t, w)]_vars

\* Two threads were saved and t1 was removed: t2 is still indexed.
C22_Witness ==
    /\ store_op = "remove"
    /\ now = 3
    /\ thread_cache["t1"] = NoEntry
    /\ \A w \in WorkDirs : ~thread_dirs[<<"t1", w>>].exists
    /\ thread_cache["t2"].updatedAt = 2
    /\ thread_dirs[<<"t2", "p/b">>].exists

\* The places rebuild_cache looks at, in the order it looks at them: for each
\* workspace its own threads directory, then the directories next to its root.
Siblings(ws) == SelectSeq(DirOrder, LAMBDA d : Parent(d) = Parent(ws.path))
ScanOf(ws) ==
    <<[ws |-> ws.id, dir |-> ws.path]>> \o
    [i \in 1..Len(Siblings(ws)) |-> [ws |-> ws.id, dir |-> Siblings(ws)[i]]]
RECURSIVE ScanOrder(_)
ScanOrder(wss) == IF wss = <<>> THEN <<>> ELSE ScanOf(Head(wss)) \o ScanOrder(Tail(wss))
Found(t) == {i \in DOMAIN ScanOrder(Workspaces) : t \in ManifestsUnder(ScanOrder(Workspaces)[i].dir)}
FirstFound(t) == ScanOrder(Workspaces)[CHOOSE i \in Found(t) : \A j \in Found(t) : i <= j]

C24_RebuildRestoresIndex ==
    store_op = "rebuild_cache" =>
        /\ \A t \in StoreIds :
               thread_cache[t] # NoEntry <=> \E w \in WorkDirs : thread_dirs[<<t, w>>].exists
        /\ {load_all[i].session_id : i \in DOMAIN load_all} =
               {t \in StoreIds : \E w \in WorkDirs : thread_dirs[<<t, w>>].exists}

\* Every line of the file is one JSON record and the last line is ended.
ValidJsonl(content) ==
    /\ content # <<>> => content[Len(content)] = LF
    /\ \A i \in DOMAIN lines(content) : from_str(lines(content)[i]).ok

\* C25: a save or update_messages that is interrupted part-way leaves
\* messages.jsonl with either its complete previous content or its complete
\* new content, and the file is a valid sequence of single-line JSON records.
C25_WritesAtomic ==
    store_op \in {"save interrupted", "update_messages interrupted"} =>
        /\ thread_dirs[interrupted.dir].messages \in {interrupted.before, interrupted.after}
        /\ ValidJsonl(thread_dirs[interrupted.dir].messages)

\* C26: after the subprocess of a session's connection has exited while a
\* prompt was in flight (the session's status became "error"), a subsequent
\* session_ensure_connected for the session fails with "is not connected"
\* and does not return the dead connection's id.
C26_DeadConnectionNotReturned ==
    (/\ Returned("ensure_connected")
     /\ sessions[cmd.sess].status = "error"
     /\ cmd.conn \in ConnIds
     /\ proc[cmd.conn] = "dead") => cmd.res = "not_connected"

\* C27: create_session with a connection id that is not in the connections
\* map fails with connection-not-found and changes nothing: no request is
\* written to any agent, no session is added, nothing is persisted. When
\* session/new fails the error is returned and no session record is inserted
\* or persisted.
C27_NoConnStep ==
    (cmd = Idle /\ cmd'.op = "create_session" /\ cmd'.conn \notin connections) =>
        /\ cmd'.stage = "returned" /\ cmd'.res = "connection_not_found"
        /\ UNCHANGED <<wire, sessions, disk, session_map, pending, pending_meta, connections>>
C27_NewFailedStep ==
    (/\ cmd.op = "create_session" /\ cmd.stage = "session/new"
     /\ cmd' # cmd /\ (~IsOk(Res) \/ Res.v = NoId)) =>
        /\ cmd'.stage = "returned" /\ cmd'.res = "error"
        /\ UNCHANGED <<sessions, disk>>
        /\ sessions[cmd.sess] = NoSession /\ ~disk[cmd.sess].exists
C27_FailedCreateChangesNothing == [][C27_NoConnStep /\ C27_NewFailedStep]_vars

\* create_session has failed for an unknown connection id while a connection
\* and a session of it exist.
C27_Witness ==
    /\ Returned("create_session")
    /\ cmd.res = "connection_not_found"
    /\ connections # {}
    /\ \E s \in SessIds : sessions[s] # NoSession /\ disk[s].exists

\* C28: after uninstall(agentId) returns, no connection of that agent is left in
\* the connections map, each of them has been terminated (child dropped, the
\* subprocess no longer running, every pending request failed with "Agent
\* terminated"), the agent is absent from the installed map, and the
\* connections of other agents, their subprocesses and their request tables
\* are untouched.
C28_Step(a) ==
    Uninstall(a) =>
        /\ \A c \in connections' : agent_id'[c] # a
        /\ \A c \in connections :
              agent_id[c] = a =>
                  /\ ~child'[c]
                  /\ proc'[c] # "running"
                  /\ pending'[c] = {}
                  /\ \A i \in pending[c] : completed'[c][i] = Terminated
        /\ a \notin installed'
        /\ \A c \in connections :
              agent_id[c] # a =>
                  /\ c \in connections'
                  /\ agent_id'[c] = agent_id[c]
                  /\ child'[c] = child[c]
                  /\ proc'[c] = proc[c]
                  /\ pending'[c] = pending[c]
                  /\ completed'[c] = completed[c]
C28_UninstallRemovesConnections == [][\A a \in Agents : C28_Step(a)]_vars

\* uninstall has returned: a connection of the uninstalled agent that had been
\* established is no longer in the map and its subprocess is dead, while a
\* connection of another agent is still there and running.
C28_Witness ==
    /\ Returned("uninstall")
    /\ \E a \in Agents :
          /\ a \notin installed
          /\ \E c \in ConnIds \ connections :
                /\ agent_id[c] = a /\ proc[c] = "dead"
                /\ \E k \in 1..Len(events) : events[k] = StatusEvent(c, "connected")
          /\ \E c \in connections : agent_id[c] # a /\ proc[c] = "running"

\* C29: a transport enters the connections map only at the end of a launch
\* whose agent was installed when launch began and whose initialize request
\* was answered with a result. launch of an agent that is not installed fails
\* without spawning a process or emitting an event; when spawn or initialize
\* fails (the initialize timeout included) the connections map is unchanged
\* and the spawned process, if any, is killed.
C29_BeginStep ==
    (cmd = Idle /\ cmd'.op = "launch") =>
        IF cmd'.stage = "returned"
        THEN /\ cmd'.res \in {"not_installed", "spawn_error"}
             /\ UNCHANGED <<connections, child, proc, wire>>
             /\ cmd'.res = "not_installed" => UNCHANGED events
        ELSE /\ cmd'.stage = "initialize"
             /\ agent_id'[cmd'.conn] \in installed
             /\ UNCHANGED connections
C29_FailStep ==
    (/\ cmd.op = "launch" /\ cmd.stage # "returned"
     /\ cmd'.op = "launch" /\ cmd'.stage = "returned" /\ cmd'.res # "ok") =>
        /\ cmd.stage = "initialize"
        /\ ~Ready \/ ~IsOk(Res)
        /\ UNCHANGED connections
        /\ ~child'[cmd.conn]
        /\ proc'[cmd.conn] # "running"
C29_InsertStep ==
    \A c \in connections' \ connections :
        /\ cmd.op = "launch" /\ cmd.conn = c
        /\ cmd'.stage = "returned" /\ cmd'.res = "ok"
        /\ connections' = connections \cup {c}
        /\ IsOk(completed[c][1])
C29_OnlyInitializedTransports ==
    [][C29_BeginStep /\ C29_FailStep /\ C29_InsertStep]_vars

\* launch has failed at initialize (error answer, dead subprocess or timeout)
\* while another transport is in the map: the failed client is not in the map
\* and its subprocess is dead.
C29_Witness ==
    /\ Returned("launch")
    /\ cmd.res \in {"error", "timeout"}
    /\ cmd.conn \notin connections
    /\ proc[cmd.conn] = "dead"
    /\ connections # {}

\* C30: when the deadline of send_request_timeout fires the caller gets a
\* timeout error and the entry of the request stays in the request table. A
\* response with that id that arrives later removes the orphaned entry,
\* raises no error and no event, reaches no command, and is handed to no other
\* pending request.
\* The initialize request of c timed out: its entry is still in the table
\* although launch no longer waits for it.
TimedOut(c) ==
    /\ 1 \in pending[c]
    /\ <<1, "initialize">> \in pending_meta[c]
    /\ ~(cmd.op = "launch" /\ cmd.conn = c /\ cmd.stage = "initialize")
C30_TimeoutStep ==
    (/\ cmd.op = "launch" /\ cmd.stage = "initialize" /\ ~Ready
     /\ cmd' # cmd) =>
        /\ cmd'.stage = "returned" /\ cmd'.res = "timeout"
        /\ cmd.id \in pending'[cmd.conn]
        /\ UNCHANGED <<pending, pending_meta, completed>>
        /\ TimedOut(cmd.conn)'
C30_LateStep(c) ==
    (/\ TimedOut(c)
     /\ stdout[c] # <<>> /\ stdout'[c] = Tail(stdout[c])
     /\ NextLine(stdout[c]).t = "resp" /\ AsU32(NextLine(stdout[c]).id) = 1) =>
        /\ 1 \notin pending'[c]
        /\ pending'[c] = pending[c] \ {1}
        /\ \A m \in pending_meta'[c] : m[1] # 1
        /\ \A j \in ReqIds \ {1} : completed'[c][j] = completed[c][j]
        /\ \A d \in ConnIds \ {c} : completed'[d] = completed[d] /\ pending'[d] = pending[d]
        /\ UNCHANGED <<cmd, events, connections, sessions, readerDone>>
C30_LateResponseDiscarded ==
    [][C30_TimeoutStep /\ \A c \in ConnIds : C30_LateStep(c)]_vars

\* launch has returned the timeout error and the answer to initialize was read
\* afterwards: the entry is gone from the table and the launch result stands.
C30_Witness ==
    /\ Returned("launch")
    /\ cmd.res = "timeout"
    /\ IsOk(completed[cmd.conn][1])
    /\ 1 \notin pending[cmd.conn]
    /\ cmd.conn \notin connections

\* C31: the bytes on a transport's stdin are a concatenation of whole message
\* lines under every interleaving of send_request calls and cancel tasks: a
\* byte that is not the first of its line follows the byte before it of the
\* same writer's line, and a line that is not complete yet is the last one and
\* is the line the holder of the mutex is writing (or the pipe has closed
\* under its writer).
Continues(s) ==
    \A i \in 1..Len(s) :
        IF i = 1 \/ (i > 1 /\ s[i - 1][2] = LineLen)
        THEN s[i][2] = 1
        ELSE s[i][1] = s[i - 1][1] /\ s[i][2] = s[i - 1][2] + 1
EndsWhole(s) == s = <<>> \/ s[Len(s)][2] = LineLen
C31_WholeLines ==
    /\ Continues(stdin_stream)
    /\ \/ EndsWhole(stdin_stream)
       \/ ~pipe_open
       \/ /\ stdin_owner # 0
          /\ writer_pc[stdin_owner] = "writing"
          /\ stdin_stream[Len(stdin_stream)][1] = stdin_owner

\* A request and two cancel notifications (or two requests and one) have all
\* been written while the pipe was open: three whole lines.
C31_Witness ==
    /\ pipe_open
    /\ \A w \in Writers : writer_pc[w] = "done"
    /\ \E w1, w2 \in Writers : writer_kind[w1] = "request" /\ writer_kind[w2] = "cancel"
    /\ Len(stdin_stream) = MaxWriters * LineLen
    /\ stdin_owner = 0

\* C32: when terminate takes a transport out of the connections map, the
\* transport's permission table is empty afterwards, so that no waiter of a
\* terminated transport emits a resolution later.
C32_TerminateClearsPermissions ==
    [][\A c \in connections \ connections' : permission_resolvers'[c] = {}]_vars

\* C33: once session/new has succeeded, create_session ends with the session
\* record: whatever set_mode and set_model answer (an error, a dead
\* subprocess) and whether or not the thread store saved the thread, the
\* command goes on to the next advisory request or returns the record, whose
\* status is "active" and which is in the session map.
C33_Step ==
    (/\ cmd.op = "create_session" /\ cmd' # cmd
     /\ \/ cmd.stage \in {"session/set_mode", "session/set_model"}
        \/ cmd.stage = "session/new" /\ IsOk(Res) /\ Res.v # NoId) =>
        /\ cmd'.op = "create_session" /\ cmd'.sess = cmd.sess /\ cmd'.conn = cmd.conn
        /\ IF cmd'.stage = "returned"
           THEN /\ cmd'.res = "ok"
                /\ sessions'[cmd.sess] = [connection_id |-> cmd.conn, status |-> "active",
                                          messages |-> <<>>]
           ELSE /\ cmd'.stage \in {"session/set_mode", "session/set_model"} \ {cmd.stage}
                /\ cmd.stage # "session/set_model"
C33_AdvisoryFailuresSwallowed == [][C33_Step]_vars

\* create_session has returned the record although its last advisory request
\* was not answered with a result and the thread was not saved.
C33_Witness ==
    /\ Returned("create_session")
    /\ cmd.res = "ok"
    /\ sessions[cmd.sess].status = "active"
    /\ ~disk[cmd.sess].exists
    /\ next_id[cmd.conn] > 1
    /\ completed[cmd.conn][next_id[cmd.conn] - 1].k \notin {"ok", "none"}
    /\ \E m \in {"session/set_mode", "session/set_model"} :
          \E i \in 1..Len(wire[cmd.conn]) : wire[cmd.conn][i].method = m

\* C34: the command handlers cannot deadlock on the top-level mutexes: no two
\* handlers wait for a mutex the other one holds, and no handler locks a
\* mutex whose guard it still holds.
WaitsFor(t, t2) ==
    /\ Running(t)
    /\ NextStep(t).op = "lock"
    /\ NextStep(t).m \in HeldBy(t2)
C34_NoCyclicWait ==
    /\ \A t \in Tasks : ~WaitsFor(t, t)
    /\ \A t1, t2 \in Tasks : t1 # t2 => ~(WaitsFor(t1, t2) /\ WaitsFor(t2, t1))

\* C35: request ids of a transport are handed out in increasing order, each
\* once, and a pending request is completed by a response only if the id on
\* the wire is the number of the request: an id that is a string, a fraction,
\* negative, or 2^32 or more completes nothing.
C35_Allocated(c) ==
    /\ next_id'[c] >= next_id[c]
    /\ \A i \in pending'[c] \ pending[c] : next_id[c] <= i /\ i < next_id'[c]
C35_Completed(c) ==
    \A i \in ReqIds :
        (completed[c][i] = NoRes /\ completed'[c][i].k \in {"ok", "acp"}) =>
            /\ stdout[c] # <<>>
            /\ NextLine(stdout[c]).t = "resp"
            /\ NextLine(stdout[c]).id = U64(0, i)
C35_OnlyEqualIdCompletes ==
    [][\A c \in ConnIds : C35_Allocated(c) /\ C35_Completed(c)]_vars

\* C36: session:permission-resolved is emitted exactly once for each
\* permission request, whether it ends by the frontend's decision, by cancel
\* or by the timeout, and never for a request id that is not pending: no such
\* event for an id no request holds, at most one per request, and one once
\* the request's waiter has finished.
Resolutions(p) == Cardinality({k \in 1..Len(events) : events[k] = ResolvedEvent(p)})
C36_ResolvedExactlyOnce ==
    \A p \in PermIds :
        /\ waiters[p] = NoWaiter => Resolutions(p) = 0
        /\ Resolutions(p) <= 1
        /\ waiters[p].state = "done" => Resolutions(p) = 1

\* C37: a request sent on a transport whose reader task has already left its
\* loop (the table was drained before the request went in) eventually returns
\* to its caller.
SentAfterReaderExit ==
    /\ cmd.op # "idle" /\ cmd.stage # "returned"
    /\ cmd.conn # NoConn
    /\ readerDone[cmd.conn]
    /\ cmd.id \in pending[cmd.conn]
C37_LateRequestReturns == SentAfterReaderExit ~> (cmd.stage = "returned")

\* C38: a session id that session_create or session_fork has just returned as
\* a new session is a key of the session map, and the transport of its
\* connection maps it to a remote id.
NewSessionReturned ==
    /\ cmd.stage = "returned" /\ cmd.res = "ok"
    /\ cmd.op \in {"create_session", "session_fork"}
C38_ReturnedSessionIsKnown ==
    NewSessionReturned =>
        /\ sessions[cmd.sess] # NoSession
        /\ session_map[cmd.conn].i2r[cmd.sess] # NoId

\* C39: a launch that has spawned its subprocess eventually returns to the
\* frontend, with a connection or with an error.
LaunchRunning == cmd.op = "launch" /\ cmd.stage # "returned"
C39_LaunchTerminates == LaunchRunning ~> (cmd.op = "launch" /\ cmd.stage = "returned")

\* C40: in every transport the two directions of the session-id map are
\* inverse to each other: the remote id R is mapped to the internal id I
\* exactly when I is mapped to R.
C40_MapsAreInverse ==
    \A c \in ConnIds : \A r \in RemoteIds : \A s \in SessIds :
        (session_map[c].r2i[r] = s) <=> (session_map[c].i2r[s] = r)

====
